---- MODULE Spec2Model ----
(***************************************************************************)
(* Model of the sync pipeline of the ads reporting platform:               *)
(*   - SyncTracker (frontend/api/utils/sync_tracker.py): the persisted     *)
(*     sliding-window rate limiter,                                        *)
(*   - the routes of frontend/api/entry.py that use it (trigger_sync,      *)
(*     get_sync_status, health_check, the two OAuth callbacks) and the     *)
(*     background thread sync_with_tracking,                               *)
(*   - the per-platform fan-out fetch_and_store_all of meta_curl.py and    *)
(*     google_curl.py, as far as the routes depend on it.                  *)
(*                                                                         *)
(* Time is counted in whole hours.  A datetime is the number of hours      *)
(* since an arbitrary origin; its ISO string is modelled as the record     *)
(* [date, time] (day number, hour of day), which is what isoformat()       *)
(* writes and fromisoformat() reads.  A route handler or thread body is    *)
(* one step that reads the clock once; the tracker driver (TrackerSpec)    *)
(* also lets the clock advance between the two clock reads of one call.    *)
(* Running threads are counted, not named: the program keeps no handle of  *)
(* a thread it starts.                                                     *)
(***************************************************************************)
EXTENDS Integers, Sequences, FiniteSets, TLC

(***************************************************************************)
(* Program constants                                                       *)
(***************************************************************************)
\* sync_tracker.py:20
MAX_SYNCS == 3
\* sync_tracker.py:21
COOLDOWN_HOURS == 3
\* timedelta.total_seconds() of one hour (sync_tracker.py:106)
SecondsPerHour == 3600
\* hours in one calendar day of an ISO timestamp (sync_tracker.py:123)
HoursPerDay == 24

\* the three fixed lookback windows: days_list (meta_curl.py:162, google_curl.py:253)
days_list == {7, 30, 180}
\* the two platforms whose fan-out sync_with_tracking runs (entry.py:198-199)
Platforms == {"meta", "google"}

(***************************************************************************)
(* Bounds of the model                                                     *)
(***************************************************************************)
\* number of sync_with_tracking threads running plus stored timestamps:
\* trigger_sync requests that would start a thread beyond it do not arrive
MaxRuns == 4
\* number of initial_sync threads that run at the same time
MaxCallbacks == 1
\* hour of the wall clock at which the process starts (the run crosses midnight)
ClockStart == 22
\* hours the wall clock may advance after the start
MaxTime == 4
\* hours the clock may advance between two clock reads inside one tracker call
MaxDelay == 2
\* number of record_sync() calls of the sequential tracker driver
MaxCalls == 4
\* rows of one fetch handed to batch_write_campaign_metrics
MaxRows == 38
\* items in one result page of the store (what fits its 1 MB page)
PageItems == 1
\* the query call of a read that can fail
MaxFailAt == 2
\* campaigns of the small fetches written to the table that is read back
MaxCampaigns == 2
\* integrations list_integrations returns to one fetch_and_store
MaxIntegrations == 2
\* customer ids the upstream reports to a discovery call
MaxDiscovered == 1
\* runs of the Google fetch_and_store_all in one process
MaxSyncRuns == 2
\* throughput rejections in a row that one put meets
MaxThrottled == 1
\* threads that call the tracker at the same time
MaxCallers == 2
\* campaign rows the remote holds for one Meta account and window
MaxRemoteRows == 501
\* rows of one Google search response, and the values of their metrics
MaxSearchRows == 2
MaxCostMicros == 2
MaxConversionsValue == 1

ClockEnd == ClockStart + MaxTime

VARIABLES
    now,            \* datetime.utcnow(), in hours
    window,         \* persisted SyncTracking item 'global': its sync_timestamps list
    db_initialized, \* entry.py globals db_initialized / integrations_db / sync_tracker:
                    \* FALSE = the handles are still None, TRUE = ensure_db() has run
    metrics,        \* MetricsStore: the platforms whose table holds rows of a sync
    running,        \* number of sync_with_tracking threads started and not ended
    cb_running,     \* number of initial_sync threads started and not ended
    resp,           \* output of the step: the response trigger_sync returned, if any
    status,         \* output of the step: the dict its get_status() returned, if any
    ended,          \* output of the step: the orchestrated sync run it ended, if any
    calls,          \* tracker driver: the clock values of its record_sync() calls
    last,           \* tracker driver: the call of the step (which, its clock
                    \* reads, the list it found, its faults), if any
    faulted,        \* tracker driver: TRUE once any storage call has failed
    table,          \* one metrics table (MetaAdsInsights or GoogleAdsInsights):
                    \* its items by key <<campaign_id, range_days>>
    writer,         \* per window worker: its batch_write_campaign_metrics call
    reader,         \* output of the step: the read_campaign_metrics call it made
    unit,           \* one fetch_and_store(days) call: its position in the account loop
    fan,            \* one sync_with_tracking run: the state of its six units
    integrations,   \* the Integrations table: its items by key <<platform, account_id>>
    cache,          \* google_ads_custom: the module's _discovery_cache dict
    resolver,       \* per window worker: its place in the account loop of the
                    \* Google fetch_and_store, and what it has called so far
    probe,          \* output of the step: the adapter call it made and its result
    inflight        \* per caller thread: the tracker call it is in and the item
                    \* its _get_tracker() returned

vars == <<now, window, db_initialized, metrics, running, cb_running, resp,
          status, ended, calls, last, faulted, table, writer, reader, unit, fan,
          integrations, cache, resolver, probe, inflight>>

\* the state of the metrics table, its writers and readers, and of the
\* fetch units; the routes of entry.py and the tracker driver leave it alone
storeVars == <<table, writer, reader, unit, fan>>

\* the Integrations table, the discovery cache, the resolving workers, the
\* adapter calls and the tracker calls in flight
resolveVars == <<integrations, cache, resolver, probe, inflight>>

(***************************************************************************)
(* Helpers                                                                 *)
(***************************************************************************)
Max(a, b) == IF a >= b THEN a ELSE b

\* min(...) over a non-empty sequence of integers (sync_tracker.py:102)
RECURSIVE SeqMin(_)
SeqMin(s) ==
    IF Len(s) = 1 THEN s[1]
    ELSE LET m == SeqMin(Tail(s)) IN IF s[1] <= m THEN s[1] ELSE m

\* [f(x) for x in s]
RECURSIVE MapFromIso(_)

\* datetime.isoformat(): date part and time part
isoformat(t) == [date |-> t \div HoursPerDay, time |-> t % HoursPerDay]

\* datetime.fromisoformat()
fromisoformat(s) == s.date * HoursPerDay + s.time

MapFromIso(s) ==
    IF s = <<>> THEN <<>> ELSE <<fromisoformat(Head(s))>> \o MapFromIso(Tail(s))

\* Python None, where an ISO string is expected (next_free_at)
None == [date |-> -1, time |-> -1]

(***************************************************************************)
(* SyncTracker                                                             *)
(***************************************************************************)
\* mutant: a failing save clears the item
save_tracker_clears(stored, timestamps, writeFail) ==
    IF writeFail THEN <<>> ELSE timestamps

\* mutant: a timestamp exactly COOLDOWN_HOURS old still counts
get_active_timestamps_inclusive(timestamps, t) ==
    SelectSeq(timestamps, LAMBDA ts : t - (ts.date * HoursPerDay + ts.time) <= COOLDOWN_HOURS)

\* mutant: the last free slot is not given out
can_sync_off_by_one(syncs_remaining) == syncs_remaining > 1

\* mutant: the remaining time is not clamped at 0
cooldown_unclamped(free_at, t2) == (free_at - t2) * SecondsPerHour

\* mutant: get_status filters but never saves the pruned list
get_status_store_no_save(stored, t1, readFail, writeFail) == stored

\* SyncTracker._get_tracker: the stored list, or a fresh empty one when the read fails
get_tracker(stored, readFail) == IF readFail THEN <<>> ELSE stored

\* SyncTracker._save_tracker: put_item; a failing write is swallowed
save_tracker(stored, timestamps, writeFail) ==
    IF writeFail THEN stored ELSE timestamps

\* SyncTracker._get_active_timestamps, evaluated at clock value t
get_active_timestamps(timestamps, t) ==
    SelectSeq(timestamps, LAMBDA ts : t - fromisoformat(ts) < COOLDOWN_HOURS)

\* can_sync of get_status (sync_tracker.py:96)
can_sync_of(syncs_remaining) == syncs_remaining > 0

\* cooldown_seconds_remaining of get_status (sync_tracker.py:105-106)
cooldown_of(free_at, t2) == Max(0, (free_at - t2) * SecondsPerHour)

\* SyncTracker.get_status: the returned dict.  t1 is the clock read by
\* _get_active_timestamps, t2 >= t1 the clock read for the cooldown.
get_status(stored, t1, t2, readFail) ==
    LET raw == get_tracker(stored, readFail)
        active == get_active_timestamps(raw, t1)
        syncs_used == Len(active)
        syncs_remaining == Max(0, MAX_SYNCS - syncs_used)
        can_sync == can_sync_of(syncs_remaining)
        blocked == ~can_sync /\ active # <<>>
        free_at == IF blocked THEN SeqMin(MapFromIso(active)) + COOLDOWN_HOURS ELSE 0
    IN  [syncs_used |-> syncs_used,
         syncs_remaining |-> syncs_remaining,
         max_syncs |-> MAX_SYNCS,
         can_sync |-> can_sync,
         cooldown_hours |-> COOLDOWN_HOURS,
         next_free_at |-> IF blocked THEN isoformat(free_at) ELSE None,
         cooldown_seconds_remaining |-> IF blocked THEN cooldown_of(free_at, t2) ELSE 0]

\* mutant: the cleanup also drops the oldest timestamp that is still active
get_status_store_drops_oldest(stored, t1, readFail, writeFail) ==
    LET raw == IF readFail THEN <<>> ELSE stored
        active == SelectSeq(raw, LAMBDA ts : t1 - fromisoformat(ts) < COOLDOWN_HOURS)
    IN  IF Len(active) # Len(raw)
        THEN (IF writeFail THEN stored
              ELSE IF active = <<>> THEN <<>> ELSE Tail(active))
        ELSE stored

\* SyncTracker.get_status: the persisted list it leaves (sync_tracker.py:85-92)
get_status_store(stored, t1, readFail, writeFail) ==
    LET raw == get_tracker(stored, readFail)
        active == get_active_timestamps(raw, t1)
    IN  IF Len(active) # Len(raw) THEN save_tracker(stored, active, writeFail)
        ELSE stored

\* SyncTracker.record_sync: the persisted list it leaves.  t1 is the clock
\* read by _get_active_timestamps, t2 >= t1 the timestamp appended.
record_sync(stored, t1, t2, readFail, writeFail) ==
    LET raw == get_tracker(stored, readFail)
        active == get_active_timestamps(raw, t1)
    IN  save_tracker(stored, Append(active, isoformat(t2)), writeFail)

(***************************************************************************)
(* Initial state: a fresh process, an empty SyncTracking table.            *)
(***************************************************************************)
(* MetricsStore: class DynamoDB of Database/database.py                    *)
(***************************************************************************)
\* items per batch_write_item (database.py:81)
batch_size == 25

\* attempts per chunk, range(5) (database.py:85)
MaxAttempts == 5

\* a campaign id is absent (None) or a string; ids are numbered
NoId == [type |-> "none", v |-> 0]
StrId(n) == [type |-> "str", v |-> n]

\* str(campaign_id)
str(x) == [type |-> "str", v |-> x.v]

\* `if campaign_id:`
truthy(x) == x.type # "none"

Min(a, b) == IF a <= b THEN a ELSE b

\* the item built from one campaign row (database.py:72-78): the row's own
\* fields come last in the dict display, so a row field named range_days or
\* last_synced would win
make_item(campaign, range_days, timestamp) ==
    [f \in (DOMAIN campaign) \cup {"campaign_id", "range_days", "last_synced"} |->
        IF f = "campaign_id" THEN str(campaign.campaign_id)
        ELSE IF f \in DOMAIN campaign THEN campaign[f]
        ELSE IF f = "range_days" THEN range_days
        ELSE timestamp]

\* "Prepare items" (database.py:67-78): rows without a campaign id are left out
prepare_items(campaigns, range_days, timestamp) ==
    LET kept == SelectSeq(campaigns, LAMBDA c : truthy(c.campaign_id))
    IN  [j \in 1..Len(kept) |-> make_item(kept[j], range_days, timestamp)]

\* mutant: the table is keyed by campaign_id alone
key_campaign_only(item) == <<item.campaign_id, 0>>

\* the table key of an item: KeySchema campaign_id HASH, range_days RANGE
\* (database.py:189-192)
key_of(item) == <<item.campaign_id, item.range_days>>

\* mutant: the put keeps the fields of the old item that the new one lacks
put_item_merging(t, item) ==
    [k \in (DOMAIN t) \cup {<<item.campaign_id, item.range_days>>} |->
        IF k # <<item.campaign_id, item.range_days>> THEN t[k]
        ELSE IF k \notin DOMAIN t THEN item
        ELSE [f \in (DOMAIN item) \cup (DOMAIN t[k]) |->
                IF f \in DOMAIN item THEN item[f] ELSE t[k][f]]]

\* Table.put_item: the item replaces whatever the key held
put_item(t, item) ==
    [k \in (DOMAIN t) \cup {key_of(item)} |->
        IF k = key_of(item) THEN item ELSE t[k]]

\* one batch_writer block: its puts in order
RECURSIVE put_items(_, _)
put_items(t, items) ==
    IF items = <<>> THEN t
    ELSE put_items(put_item(t, Head(items)), Tail(items))

\* mutant: the slice takes one item too many
chunk_at_one_more(items, i) == SubSeq(items, i, Min(i + batch_size, Len(items)))

\* batch = items[i:i + batch_size], with i counted from 1
chunk_at(items, i) == SubSeq(items, i, Min(i + batch_size - 1, Len(items)))

\* keys in index order: the sort key of RangeDaysIndex is campaign_id
\* (database.py:230-233); range_days breaks ties between windows
key_before(a, b) == a[1].v < b[1].v \/ (a[1].v = b[1].v /\ a[2] < b[2])

RECURSIVE sorted_keys(_)
sorted_keys(S) ==
    IF S = {} THEN <<>>
    ELSE LET k == CHOOSE x \in S : \A y \in S \ {x} : key_before(x, y)
         IN  <<k>> \o sorted_keys(S \ {k})

\* the items of the given keys, in key order
items_of(t, S) == LET ks == sorted_keys(S) IN [j \in 1..Len(ks) |-> t[ks[j]]]

\* the keys the condition range_days = W selects
matching(t, W) == {k \in DOMAIN t : t[k].range_days = W}

\* number of query calls the index path makes: one, and one more per
\* LastEvaluatedKey (database.py:111-125)
query_calls(t, W) ==
    LET n == Cardinality(matching(t, W))
    IN  IF n = 0 THEN 1 ELSE (n + PageItems - 1) \div PageItems

\* the index path: every page of the query, concatenated
query_all(t, W) == items_of(t, matching(t, W))

\* the fallback: one table.scan call with the filter, its LastEvaluatedKey
\* not followed (database.py:132-135).  scanned = the keys of the one page
\* the store read before it applied the filter.
scan_once(t, W, scanned) == items_of(t, {k \in scanned : t[k].range_days = W})

\* the pages a scan call can have read: any PageItems items of the table,
\* or the whole table when it is smaller
scan_pages(t) ==
    {S \in SUBSET DOMAIN t : Cardinality(S) = Min(PageItems, Cardinality(DOMAIN t))}

\* mutant: the except branch keeps the pages fetched before the error
read_campaign_metrics_keeps_pages(t, W, failAt, scanned) ==
    IF failAt = 0 \/ failAt > query_calls(t, W)
    THEN [range_days |-> W, path |-> "index", rows |-> query_all(t, W),
          fetched |-> query_calls(t, W)]
    ELSE [range_days |-> W, path |-> "scan",
          rows |-> SubSeq(query_all(t, W), 1, (failAt - 1) * PageItems)
                     \o scan_once(t, W, scanned),
          fetched |-> failAt - 1]

\* read_campaign_metrics(range_days).  failAt = the query call that raises
\* (0 = none): the except branch then drops the pages already fetched and
\* returns the scan's rows.
read_campaign_metrics(t, W, failAt, scanned) ==
    IF failAt = 0 \/ failAt > query_calls(t, W)
    THEN [range_days |-> W, path |-> "index", rows |-> query_all(t, W),
          fetched |-> query_calls(t, W)]
    ELSE [range_days |-> W, path |-> "scan", rows |-> scan_once(t, W, scanned),
          fetched |-> failAt - 1]

\* the table after the chunk loop of batch_write_campaign_metrics
\* (database.py:82-98), from the chunk at i on: a chunk is written by the
\* attempt that succeeds, or abandoned (five throughput rejections, or
\* another error) and the loop goes on with the next one
RECURSIVE write_chunks(_, _, _, _)
write_chunks(t, items, i, abandoned) ==
    IF i > Len(items) THEN t
    ELSE write_chunks(IF i \in abandoned THEN t
                      ELSE put_items(t, chunk_at(items, i)),
                      items, i + batch_size, abandoned)

\* the chunk starts of range(0, len(items), batch_size), counted from 1
chunk_starts(items) == {i \in 1..Len(items) : i % batch_size = 1}

\* write_campaign_metrics(campaign_id, range_days, metrics): the item it
\* puts (database.py:33-38); the id is not tested before str()
single_item(campaign_id, range_days, fields, timestamp) ==
    [f \in (DOMAIN fields) \cup {"campaign_id", "range_days", "last_synced"} |->
        IF f \in DOMAIN fields THEN fields[f]
        ELSE IF f = "campaign_id" THEN str(campaign_id)
        ELSE IF f = "range_days" THEN range_days
        ELSE timestamp]

EmptyTable == [k \in {} |-> NoId]

\* no batch_write_campaign_metrics call made yet by a worker
NoWrite == [op |-> "none", active |-> FALSE, returned |-> FALSE,
            range_days |-> 0, campaigns |-> <<>>, items |-> <<>>, i |-> 1,
            attempt |-> 0, issued |-> <<>>, abandoned |-> {},
            before |-> EmptyTable]

NoRead == [range_days |-> 0, path |-> "none", rows |-> <<>>, fetched |-> 0]

\* no fetch_and_store(days) has been called
NoUnit == [state |-> "none", platform |-> "none", days |-> 0, n |-> 0,
           next |-> 1, all_results |-> <<>>, log |-> <<>>]

\* sync_with_tracking has not started its fan-outs
NoFan == [state |-> "none", platform |-> "none", submitted |-> 0,
          units |-> [u \in Platforms \X days_list |-> "unsubmitted"],
          starts |-> [u \in Platforms \X days_list |-> 0]]

(***************************************************************************)
(* Integrations, credentials and account resolution of the Google adapters *)
(* (google/google_curl.py over REST, google_ads_custom/google_curl.py over *)
(* the SDK)                                                                *)
(***************************************************************************)
\* account identifiers: an owner email, which the OAuth callback stores as
\* the account id (entry.py:375-381), or a customer id
Email(n) == [kind |-> "email", n |-> n]
Cid(n) == [kind |-> "customer", n |-> n]

\* the owner who links a Google account
OwnerEmails == {Email(0), Email(1)}

\* "@" in str(cid)
contains_at(cid) == cid.kind = "email"

\* credentials: an access token ("ya29."), a refresh token ("1//"), Python
\* None, and the encrypted form the Integrations table stores
Bearer(n) == [prefix |-> "ya29.", n |-> n]
Refresh(n) == [prefix |-> "1//", n |-> n]
NoToken == [prefix |-> "None", n |-> 0]
Encrypted(tok) == [prefix |-> "gAAAAAB", n |-> tok.n, of |-> tok]

\* decrypt_token: a Fernet token is decrypted, anything else is returned
\* as it is
decrypt_token(tok) == IF tok.prefix = "gAAAAAB" THEN tok.of ELSE tok

\* what the POST to the token endpoint can do
ExchangeAnswers ==
    {"transport_error", "non_2xx", "ok_token", "ok_no_token", "ok_not_json"}

\* get_access_token(stored_token) (google/google_curl.py:27-51): the token
\* it returns, whether it raised, and whether it called the token endpoint
get_access_token(stored_token, answer) ==
    IF stored_token.prefix = "ya29."
    THEN [raised |-> FALSE, token |-> stored_token, posted |-> FALSE]
    ELSE IF answer = "transport_error"
    THEN [raised |-> TRUE, token |-> NoToken, posted |-> TRUE]
    ELSE IF answer = "non_2xx"
    THEN [raised |-> FALSE, token |-> stored_token, posted |-> TRUE]
    ELSE IF answer = "ok_not_json"
    THEN [raised |-> TRUE, token |-> NoToken, posted |-> TRUE]
    ELSE IF answer = "ok_token"
    THEN [raised |-> FALSE, token |-> Bearer(stored_token.n + 1), posted |-> TRUE]
    ELSE [raised |-> FALSE, token |-> NoToken, posted |-> TRUE]

\* the item save_integration builds (database.py:142-150); the names the
\* callers pass are f-strings over the account id
integration_item(platform, account_id, email, access_token, account_name, timestamp) ==
    [platform |-> platform, account_id |-> account_id, email |-> email,
     access_token |-> access_token, account_name |-> account_name,
     status |-> "Active", last_synced |-> timestamp]

\* the key of the Integrations table: platform HASH, account_id RANGE
\* (entry.py:62)
integration_key(item) == <<item.platform, item.account_id>>

\* put_item calls a write makes before it gives up: write_campaign_metrics
\* loops over range(5) (database.py:40), save_integration calls once
write_campaign_metrics_attempts == 5
save_integration_attempts == 1

\* whether a write that makes up to attempts put_item calls gets its item
\* in, when the table answers the first throttled calls with
\* ProvisionedThroughputExceededException
put_accepted(attempts, throttled) == throttled < attempts

\* mutant: the record of a customer id takes the place of the owner's
\* placeholder record
save_integration_moving(t, item, accepted) ==
    IF accepted
    THEN LET kept == {k \in DOMAIN t :
                        ~(contains_at(k[2]) /\ ~contains_at(item.account_id)
                          /\ t[k].email = item.email)}
         IN  [k \in kept \cup {<<item.platform, item.account_id>>} |->
                 IF k = <<item.platform, item.account_id>> THEN item ELSE t[k]]
    ELSE t

\* save_integration: put_item, or the except branch that returns False.
save_integration(t, item, accepted) ==
    IF accepted
    THEN [k \in (DOMAIN t) \cup {integration_key(item)} |->
             IF k = integration_key(item) THEN item ELSE t[k]]
    ELSE t

\* account ids in sort-key order, the order of the strings: n stands for
\* the leading characters, so Email(0) is an address that sorts before the
\* customer ids ("007@...") and Email(1) one that sorts after Cid(1)
id_before(a, b) ==
    IF a.n # b.n THEN a.n < b.n ELSE a.kind = "customer" /\ b.kind = "email"

RECURSIVE sorted_ids(_)
sorted_ids(S) ==
    IF S = {} THEN <<>>
    ELSE LET k == CHOOSE x \in S : \A y \in S \ {x} : id_before(x, y)
         IN  <<k>> \o sorted_ids(S \ {k})

\* list_integrations(platform) (database.py:157-174): the items of the
\* partition in sort-key order, or [] when the query raises
list_integrations(t, platform, failed) ==
    IF failed THEN <<>>
    ELSE LET ids == sorted_ids({k[2] : k \in {x \in DOMAIN t : x[1] = platform}})
         IN  [j \in 1..Len(ids) |-> t[<<platform, ids[j]>>]]

\* the adapters
Adapters == {"rest", "sdk"}

\* discover_accounts looks the email up in _discovery_cache before it calls
\* (google_ads_custom/google_curl.py:52-54); the REST adapter has no cache
cache_hit(adapter, c, email) == adapter = "sdk" /\ email \in DOMAIN c

\* _discovery_cache after a discovery call: the SDK adapter stores the result
\* of a call that did not raise (google_ads_custom/google_curl.py:73-76)
cache_after(adapter, c, email, answer) ==
    IF adapter = "sdk" /\ answer.ok
    THEN [e \in (DOMAIN c) \cup {email} |->
             IF e = email THEN answer.ids ELSE c[e]]
    ELSE c

\* what a discovery call returns: [] when the upstream call fails
discovered(answer) == IF answer.ok THEN answer.ids ELSE <<>>

\* mutant: the REST adapter's fallback list is fetched
fetchable_any(target_cid) == TRUE

\* `if "@" in str(target_cid): continue` in the fetch loop
fetchable(target_cid) == ~contains_at(target_cid)

\* mutant: discovery is attempted for every integration
needs_discovery_always(cid) == TRUE

\* `if "@" in str(cid)`: the stored account id is a placeholder
needs_discovery(cid) == contains_at(cid)

\* customer_ids of one integration (google/google_curl.py:203-224,
\* google_ads_custom/google_curl.py:225-244), given what discovery returned
customer_ids_of(adapter, cid, found) ==
    IF needs_discovery(cid)
    THEN IF found # <<>> THEN found
         ELSE IF adapter = "rest" THEN <<cid>> ELSE <<>>
    ELSE <<cid>>

\* the ids of customer_ids the fetch loop sends a request for
fetch_targets(customer_ids) == SelectSeq(customer_ids, fetchable)

\* what the loop reads of an integration item (google/google_curl.py:192-194)
account_of(item) ==
    [email |-> item.email, access_token |-> item.access_token,
     account_id |-> item.account_id]

\* mutant: the record is saved with the token the fetch will use
saved_credential_fresh(token, access_token) == access_token

\* access_token=token: the concrete records keep the stored (encrypted) token
saved_credential(token, access_token) == token

\* the Integrations table before any account is linked
NoIntegrations == [k \in {} |-> NoId]

\* _discovery_cache = {} at import
NoCache == [e \in {} |-> <<>>]

\* no thread is inside a tracker call
NoInflight == [c \in 1..MaxCallers |-> [op |-> "none", sync_timestamps |-> <<>>]]

\* a window worker that has not been submitted
NoWorker == [pc |-> "idle", accounts |-> <<>>, next |-> 1]

\* no Google adapter imported, no fetch_and_store_all run started.  upstream
\* is the list of customers the upstream holds during the run; zero, the
\* owner emails whose discovery has come back empty; unresolved, those for
\* which it had before the current run started
NoResolver == [adapter |-> "none", run |-> 0, upstream |-> <<>>,
               zero |-> {}, unresolved |-> {},
               w |-> [W \in days_list |-> NoWorker]]

\* no adapter call made by the step
NoProbe == [op |-> "none"]

(***************************************************************************)
NoResp == [kind |-> "none", syncs_remaining |-> 0,
           next_free_at |-> None, cooldown_seconds_remaining |-> 0]

\* an orchestrated sync run that has ended: which route started it, whether
\* get_status() had answered can_sync before it started, whether a unit
\* threw, whether record_sync() was called for it
NoRun == [origin |-> "none", permitted |-> FALSE, threw |-> FALSE,
          recorded |-> FALSE]

NoStatus == get_status(<<>>, 0, 0, FALSE)

NoCall == [op |-> "none", t1 |-> -1, t2 |-> -1, before |-> <<>>,
           readFail |-> FALSE, writeFail |-> FALSE]

InitCommon ==
    /\ now = ClockStart
    /\ window = <<>>
    /\ metrics = {}
    /\ running = 0
    /\ cb_running = 0
    /\ resp = NoResp
    /\ status = NoStatus
    /\ ended = NoRun
    /\ calls = <<>>
    /\ last = NoCall
    /\ faulted = FALSE
    /\ table = EmptyTable
    /\ writer = [W \in days_list |-> NoWrite]
    /\ reader = NoRead
    /\ unit = NoUnit
    /\ fan = NoFan
    /\ integrations = NoIntegrations
    /\ cache = NoCache
    /\ resolver = NoResolver
    /\ probe = NoProbe
    /\ inflight = NoInflight

\* entry.py:50-52: the globals before any route ran ensure_db()
Init == InitCommon /\ db_initialized = FALSE

appVars == <<db_initialized, metrics, running, cb_running>>
driverVars == <<calls, last, faulted>>

\* what a step leaves in the output variables it does not produce
NoStatusCall == status' = NoStatus
NoResponse == resp' = NoResp
NoRunEnds == ended' = NoRun

\* the wall clock advances by one hour
Tick ==
    /\ now < ClockEnd
    /\ now' = now + 1
    /\ NoStatusCall /\ NoResponse /\ NoRunEnds /\ last' = NoCall
    /\ UNCHANGED <<window, appVars, calls, faulted, storeVars, resolveVars>>

Units == Platforms \X days_list

\* the outcomes of one fan-out over the given platforms that the model
\* enumerates: no unit throws, or the 7-day unit of one platform does
UnitFailures(platforms) ==
    {{}} \cup {{u} : u \in {v \in Units : v[1] \in platforms /\ v[2] = 7}}

\* the storage outcomes of one tracker call, <<read fails, write fails>>.  A
\* call whose read fails has nothing to write in get_status, and in
\* record_sync a failing write leaves the item alone whatever was read, so
\* both failing adds no outcome to these three.
StorageFaults == {<<FALSE, FALSE>>, <<TRUE, FALSE>>, <<FALSE, TRUE>>}

\* the clock values a second clock read inside one call can return
Later(t) == {t2 \in t..(t + MaxDelay) : t2 <= ClockEnd}

(***************************************************************************)
(* Routes of entry.py                                                      *)
(***************************************************************************)
\* ensure_db(): after it db_initialized is True and the handles are set
ensure_db == TRUE

\* GET /api/ : health_check
HealthCheck ==
    /\ db_initialized' = ensure_db
    /\ NoStatusCall /\ NoResponse /\ NoRunEnds
    /\ UNCHANGED <<now, window, metrics, running, cb_running, driverVars, storeVars, resolveVars>>

\* GET /api/insights/sync-status : get_sync_status
GetSyncStatus ==
    \E fault \in StorageFaults :
        /\ db_initialized' = ensure_db
        /\ status' = get_status(window, now, now, fault[1])
        /\ window' = get_status_store(window, now, fault[1], fault[2])
        /\ NoResponse /\ NoRunEnds
        /\ UNCHANGED <<now, metrics, running, cb_running, driverVars, storeVars, resolveVars>>

\* mutant: the 429 detail computes syncs_remaining as the acknowledgment does
Rejection_as_ack(st) ==
    [kind |-> "429", syncs_remaining |-> st.syncs_remaining - 1,
     next_free_at |-> st.next_free_at,
     cooldown_seconds_remaining |-> st.cooldown_seconds_remaining]

\* the 429 detail of trigger_sync (entry.py:184-192)
Rejection(st) ==
    [kind |-> "429", syncs_remaining |-> 0,
     next_free_at |-> st.next_free_at,
     cooldown_seconds_remaining |-> st.cooldown_seconds_remaining]

\* mutant: the acknowledgment repeats the status' syncs_remaining
Started_as_status(st) ==
    [kind |-> "started", syncs_remaining |-> st.syncs_remaining,
     next_free_at |-> None, cooldown_seconds_remaining |-> 0]

\* the acknowledgment of trigger_sync (entry.py:206-210)
Started(st) ==
    [kind |-> "started", syncs_remaining |-> st.syncs_remaining - 1,
     next_free_at |-> None, cooldown_seconds_remaining |-> 0]

\* the generic 500 of catch_exceptions_middleware (entry.py:89-101)
InternalError == [NoResp EXCEPT !.kind = "500"]

\* whether trigger_sync can call sync_tracker.get_status(): the handler does
\* not call ensure_db(), so the global is whatever an earlier route left
tracker_ready(initialized) == initialized

\* POST /api/insights/sync : trigger_sync.  With sync_tracker still None,
\* sync_tracker.get_status() raises AttributeError, which the middleware maps
\* to the 500 response.
TriggerSync ==
    /\ IF ~tracker_ready(db_initialized)
       THEN /\ resp' = InternalError
            /\ NoStatusCall
            /\ UNCHANGED <<window, running>>
       ELSE \E fault \in StorageFaults :
              LET st == get_status(window, now, now, fault[1]) IN
              /\ status' = st
              /\ window' = get_status_store(window, now, fault[1], fault[2])
              /\ IF ~st.can_sync
                 THEN /\ resp' = Rejection(st)
                      /\ running' = running
                 ELSE \* threading.Thread(target=sync_with_tracking).start()
                      /\ Len(window) + running < MaxRuns
                      /\ resp' = Started(st)
                      /\ running' = running + 1
    /\ NoRunEnds
    /\ UNCHANGED <<now, db_initialized, metrics, cb_running, driverVars, storeVars, resolveVars>>

(***************************************************************************)
(* The per-platform fan-out and the background thread                      *)
(***************************************************************************)
\* fetch_and_store_all of the given platforms: the three window units of a
\* platform run on a pool of three workers; the with-block returns when all
\* three have ended.  wrote = the platforms for which some unit stored rows.
fetch_and_store_all(store, platforms, wrote) == store \cup (wrote \cap platforms)

\* whether a fan-out call raises to its caller, given the units that threw
\* (an uncaught error of fetch_and_store, such as a transport error of
\* requests.post in get_access_token): never, every future.result() is inside
\* try/except and the error is only printed
fan_out_raises(threw) == FALSE

\* the thread sync_with_tracking: fetch_and_store_all(); fetch_google_all();
\* sync_tracker.record_sync(), all inside one try (entry.py:194-202)
SyncWithTracking ==
    /\ running > 0
    /\ running' = running - 1
    /\ \E threw \in UnitFailures(Platforms), wrote \in SUBSET Platforms :
        /\ metrics' = fetch_and_store_all(metrics, Platforms, wrote)
        /\ IF fan_out_raises(threw)
           THEN /\ ended' = [origin |-> "trigger_sync", permitted |-> TRUE,
                             threw |-> TRUE, recorded |-> FALSE]
                /\ UNCHANGED window
           ELSE \E fault \in StorageFaults :
                /\ window' = record_sync(window, now, now, fault[1], fault[2])
                /\ ended' = [origin |-> "trigger_sync", permitted |-> TRUE,
                             threw |-> threw # {}, recorded |-> TRUE]
    /\ NoStatusCall /\ NoResponse
    /\ UNCHANGED <<now, db_initialized, cb_running, driverVars, storeVars, resolveVars>>

(***************************************************************************)
(* The OAuth callbacks                                                     *)
(***************************************************************************)
\* GET /api/auth/meta/callback : meta_callback.  A failed code exchange
\* returns the error body; saving an account with integrations_db still None
\* raises (500); otherwise the handler runs the meta fan-out itself, with no
\* get_status() before it and no record_sync() after it, and redirects.
MetaCallback ==
    /\ \E exchanged \in BOOLEAN, accounts \in BOOLEAN :
        IF ~exchanged \/ (accounts /\ ~db_initialized)
        THEN /\ NoRunEnds
             /\ UNCHANGED metrics
        ELSE \E threw \in UnitFailures({"meta"}), wrote \in SUBSET {"meta"} :
             /\ metrics' = fetch_and_store_all(metrics, {"meta"}, wrote)
             /\ ended' = [origin |-> "meta_callback", permitted |-> FALSE,
                          threw |-> threw # {}, recorded |-> FALSE]
    /\ NoStatusCall /\ NoResponse
    /\ UNCHANGED <<now, window, db_initialized, running, cb_running, driverVars, storeVars, resolveVars>>

\* GET /api/auth/google/callback : google_callback.  It saves the placeholder
\* integration (500 with integrations_db still None), starts the thread
\* initial_sync and redirects.
GoogleCallback ==
    /\ \E exchanged \in BOOLEAN :
        IF ~exchanged \/ ~db_initialized
        THEN cb_running' = cb_running
        ELSE /\ cb_running < MaxCallbacks
             /\ cb_running' = cb_running + 1
    /\ NoStatusCall /\ NoResponse /\ NoRunEnds
    /\ UNCHANGED <<now, window, db_initialized, metrics, running, driverVars, storeVars, resolveVars>>

\* the thread initial_sync of google_callback: fetch_google_all()
\* (entry.py:391-395)
InitialSync ==
    /\ cb_running > 0
    /\ cb_running' = cb_running - 1
    /\ \E threw \in UnitFailures({"google"}), wrote \in SUBSET {"google"} :
        /\ metrics' = fetch_and_store_all(metrics, {"google"}, wrote)
        /\ ended' = [origin |-> "google_callback", permitted |-> FALSE,
                     threw |-> threw # {}, recorded |-> FALSE]
    /\ NoStatusCall /\ NoResponse
    /\ UNCHANGED <<now, window, db_initialized, running, driverVars, storeVars, resolveVars>>

(***************************************************************************)
(* The application: any interleaving of requests, background threads and   *)
(* the clock.                                                              *)
(***************************************************************************)
Next ==
    \/ Tick
    \/ HealthCheck
    \/ GetSyncStatus
    \/ TriggerSync
    \/ SyncWithTracking
    \/ MetaCallback
    \/ GoogleCallback
    \/ InitialSync

Spec == Init /\ [][Next]_vars

(***************************************************************************)
(* The tracker driver: one caller at a time calls get_status() and         *)
(* record_sync() on a constructed SyncTracker while the clock advances.    *)
(***************************************************************************)
TrackerInit == InitCommon /\ db_initialized = TRUE

CallStatus ==
    \E readFail \in BOOLEAN, writeFail \in BOOLEAN, t2 \in Later(now) :
        /\ status' = get_status(window, now, t2, readFail)
        /\ window' = get_status_store(window, now, readFail, writeFail)
        /\ now' = t2
        /\ last' = [op |-> "status", t1 |-> now, t2 |-> t2, before |-> window,
                    readFail |-> readFail, writeFail |-> writeFail]
        /\ faulted' = (faulted \/ readFail \/ writeFail)
        /\ NoResponse /\ NoRunEnds
        /\ UNCHANGED <<calls, appVars, storeVars, resolveVars>>

CallRecord ==
    /\ Len(calls) < MaxCalls
    /\ \E readFail \in BOOLEAN, writeFail \in BOOLEAN, t2 \in Later(now) :
        /\ window' = record_sync(window, now, t2, readFail, writeFail)
        /\ now' = t2
        /\ calls' = Append(calls, t2)
        /\ last' = [op |-> "record", t1 |-> now, t2 |-> t2, before |-> window,
                    readFail |-> readFail, writeFail |-> writeFail]
        /\ faulted' = (faulted \/ readFail \/ writeFail)
        /\ NoStatusCall /\ NoResponse /\ NoRunEnds
        /\ UNCHANGED <<appVars, storeVars, resolveVars>>

TrackerNext == Tick \/ CallStatus \/ CallRecord

TrackerSpec == TrackerInit /\ [][TrackerNext]_vars

(***************************************************************************)
(* batch_write_campaign_metrics: one call per window worker, one step per  *)
(* batch_writer block                                                      *)
(***************************************************************************)
\* what the steps of the metrics table leave alone
routeVars == <<now, window, db_initialized, metrics, running, cb_running, resp,
               status, ended, calls, last, faulted>>

\* the rows of one fetch: m campaign rows, those at the positions of skip
\* without a campaign id, all with the given spend
Rows(m, skip, spend) ==
    [j \in 1..m |-> [campaign_id |-> IF j \in skip THEN NoId ELSE StrId(j),
                     spend |-> spend]]

\* entry of batch_write_campaign_metrics(campaigns, range_days) up to the
\* chunk loop (database.py:62-82): an empty list returns True at once, and a
\* list without any campaign id has no chunk to issue
BatchWriteCall(W, campaigns) ==
    LET items == IF campaigns = <<>> THEN <<>>
                 ELSE prepare_items(campaigns, W, isoformat(now))
    IN  [op |-> "batch", active |-> items # <<>>, returned |-> items = <<>>,
         range_days |-> W, campaigns |-> campaigns, items |-> items, i |-> 1,
         attempt |-> 0, issued |-> <<>>, abandoned |-> {}, before |-> table]

\* the outcomes of one batch_writer block: written, rejected with
\* ProvisionedThroughputExceededException, rejected with another error
BatchOutcomes == {"ok", "throughput", "error"}

\* mutant: the retry loop is `while True`, left on success only
leaves_chunk_on_success_only(outcome, attempt) == outcome = "ok"

\* mutant: another error is retried like a throughput rejection
leaves_chunk_retries_errors(outcome, attempt) ==
    outcome = "ok" \/ attempt + 1 >= MaxAttempts

\* mutant: the retry loop allows one attempt more
leaves_chunk_late(outcome, attempt) ==
    outcome \in {"ok", "error"} \/ attempt >= MaxAttempts

\* whether the retry loop leaves the chunk after this attempt
\* (database.py:85-98): break on success, break on another error, or the
\* last of range(5)
leaves_chunk(outcome, attempt) ==
    outcome \in {"ok", "error"} \/ attempt + 1 >= MaxAttempts

\* one pass of the body of `for attempt in range(5)` for the chunk at i
IssueChunk(W) ==
    LET w == writer[W]
        batch == chunk_at(w.items, w.i)
    IN  /\ w.active
        /\ \E outcome \in BatchOutcomes :
            LET next_i == IF leaves_chunk(outcome, w.attempt)
                          THEN w.i + batch_size ELSE w.i
                done == next_i > Len(w.items)
            IN  /\ table' = IF outcome = "ok" THEN put_items(table, batch)
                            ELSE table
                /\ writer' = [writer EXCEPT ![W] =
                      [w EXCEPT !.i = next_i,
                                !.attempt = IF next_i = w.i THEN w.attempt + 1 ELSE 0,
                                !.active = ~done,
                                !.returned = done,
                                !.abandoned = IF next_i # w.i /\ outcome # "ok"
                                              THEN w.abandoned \cup {w.i}
                                              ELSE w.abandoned,
                                !.issued = Append(w.issued,
                                    [start |-> w.i, size |-> Len(batch),
                                     attempt |-> w.attempt + 1,
                                     outcome |-> outcome])]]
        /\ reader' = NoRead
        /\ UNCHANGED <<routeVars, resolveVars, unit, fan>>

(***************************************************************************)
(* One batch_write_campaign_metrics call over the rows of a large fetch    *)
(***************************************************************************)
BatchInit == InitCommon /\ db_initialized = TRUE

\* the positions without campaign id that the model enumerates
SkipSets(m) == {{}} \cup (IF m > 0 THEN {{1}} ELSE {})

StartBatch ==
    /\ \A V \in days_list : writer[V] = NoWrite
    /\ \E W \in days_list, m \in 0..MaxRows :
        \E skip \in SkipSets(m) :
            writer' = [writer EXCEPT ![W] = BatchWriteCall(W, Rows(m, skip, 1))]
    /\ reader' = NoRead
    /\ UNCHANGED <<routeVars, resolveVars, table, unit, fan>>

BatchNext == StartBatch \/ \E W \in days_list : IssueChunk(W)

BatchSpec == BatchInit /\ [][BatchNext]_vars

(***************************************************************************)
(* The metrics table written and read back: whole calls of                 *)
(* batch_write_campaign_metrics, write_campaign_metrics and                *)
(* read_campaign_metrics, one at a time, on small fetches                  *)
(***************************************************************************)
StoreInit == InitCommon /\ db_initialized = TRUE

\* the campaign rows of a small fetch: first generation rows carry a
\* campaign_name, second generation rows do not and have another spend
Fetch(m, skip, gen) ==
    [j \in 1..m |->
        IF gen = 1
        THEN [campaign_id |-> IF j \in skip THEN NoId ELSE StrId(j),
              spend |-> 1, campaign_name |-> "name"]
        ELSE [campaign_id |-> IF j \in skip THEN NoId ELSE StrId(j),
              spend |-> 2]]

NoWrites == [W \in days_list |-> NoWrite]

\* no call is being made and no result is held by a caller
StoreIdle == writer = NoWrites /\ reader = NoRead

\* batch_write_campaign_metrics(campaigns, W), the whole call
WriteBatch(W) ==
    /\ StoreIdle
    /\ \E m \in 0..MaxCampaigns, gen \in 1..2 :
        \E skip \in SkipSets(m) :
            LET call == BatchWriteCall(W, Fetch(m, skip, gen)) IN
            \E abandoned \in SUBSET chunk_starts(call.items) :
                /\ table' = write_chunks(table, call.items, 1, abandoned)
                /\ writer' = [NoWrites EXCEPT ![W] =
                      [call EXCEPT !.active = FALSE, !.returned = TRUE,
                                   !.i = Len(call.items) + 1,
                                   !.abandoned = abandoned]]
    /\ reader' = NoRead
    /\ UNCHANGED <<routeVars, resolveVars, unit, fan>>

\* write_campaign_metrics(campaign_id, W, metrics), the whole call: the item
\* is stored by the attempt that succeeds, or the call returns False
WriteOne(W) ==
    /\ StoreIdle
    /\ \E c \in 1..MaxCampaigns, gen \in 1..2, stored \in BOOLEAN :
        LET row == Fetch(c, {}, gen)[c]
            metrics_of == [f \in (DOMAIN row) \ {"campaign_id"} |-> row[f]]
            item == single_item(row.campaign_id, W, metrics_of, isoformat(now))
        IN  /\ table' = IF stored THEN put_item(table, item) ELSE table
            /\ writer' = [NoWrites EXCEPT ![W] =
                  [NoWrite EXCEPT !.op = "single", !.returned = TRUE,
                                  !.range_days = W, !.campaigns = <<row>>,
                                  !.items = <<item>>, !.i = 2,
                                  !.abandoned = IF stored THEN {} ELSE {1},
                                  !.before = table]]
    /\ reader' = NoRead
    /\ UNCHANGED <<routeVars, resolveVars, unit, fan>>

\* read_campaign_metrics(W), the whole call
ReadRange(W) ==
    /\ StoreIdle
    /\ \E failAt \in 0..MaxFailAt :
        IF failAt = 0 \/ failAt > query_calls(table, W)
        THEN reader' = read_campaign_metrics(table, W, failAt, {})
        ELSE \E scanned \in scan_pages(table) :
                reader' = read_campaign_metrics(table, W, failAt, scanned)
    /\ writer' = NoWrites
    /\ UNCHANGED <<routeVars, resolveVars, table, unit, fan>>

\* the caller of the call that just returned goes on; it was handed the
\* result (write_to_dynamodb ignores it, get_cached_insights returns the rows)
CallerContinues ==
    /\ ~StoreIdle
    /\ writer' = NoWrites
    /\ reader' = NoRead
    /\ UNCHANGED <<routeVars, resolveVars, table, unit, fan>>

StoreNext ==
    \/ \E W \in days_list : WriteBatch(W) \/ WriteOne(W) \/ ReadRange(W)
    \/ CallerContinues

StoreSpec == StoreInit /\ [][StoreNext]_vars

(***************************************************************************)
(* The three window workers of one fetch_and_store_all writing their rows  *)
(* to the platform's table concurrently                                    *)
(***************************************************************************)
WorkersInit == InitCommon /\ db_initialized = TRUE

\* the worker of window W reaches write_to_dynamodb with the rows it fetched:
\* the campaigns are the same for every window
StartWorker(W) ==
    /\ writer[W] = NoWrite
    /\ \E m \in 1..MaxCampaigns :
        writer' = [writer EXCEPT ![W] =
                      [BatchWriteCall(W, Fetch(m, {}, 1)) EXCEPT
                          !.before = EmptyTable]]
    /\ reader' = NoRead
    /\ UNCHANGED <<routeVars, resolveVars, table, unit, fan>>

WorkersNext == \E W \in days_list : StartWorker(W) \/ IssueChunk(W)

WorkersSpec == WorkersInit /\ [][WorkersNext]_vars

(***************************************************************************)
(* One unit: fetch_and_store(days) of a platform, integration by           *)
(* integration                                                             *)
(***************************************************************************)
UnitInit == InitCommon /\ db_initialized = TRUE

\* get_access_token(decrypt_token(token)) (google_curl.py:27-51, 200): the
\* stored token is an access token; the refresh answers 2xx with a JSON body;
\* the refresh answers non-2xx and the stored token is used instead;
\* requests.post raises; the 2xx body is not JSON and r.json() raises.
\* Neither call is inside a try.
CredentialReturns == {"access_token", "refreshed", "refresh_rejected"}
CredentialRaises == {"refresh_transport_error", "refresh_malformed_body"}

\* the metric fetch of one account (meta_curl.py:37-78,
\* google_curl.py:77-166): every failure is caught and gives []
FetchOutcomes == {"rows", "no_rows", "non_2xx", "malformed"}

\* what can happen to one Google integration of the loop
\* (google_curl.py:191-239)
GoogleAccountRuns ==
    {[complete |-> FALSE, credential |-> "not_reached",
      discovery |-> "not_reached", fetch |-> "not_reached",
      name |-> "not_reached"]}
    \cup {[complete |-> TRUE, credential |-> c,
           discovery |-> "not_reached", fetch |-> "not_reached",
           name |-> "not_reached"] :
              c \in CredentialRaises}
    \cup {[complete |-> TRUE, credential |-> c,
           discovery |-> "none_found", fetch |-> "not_reached",
           name |-> "not_reached"] :
              c \in CredentialReturns}
    \cup {[complete |-> TRUE, credential |-> c, discovery |-> d, fetch |-> f,
           name |-> IF f = "rows" THEN nm ELSE "not_reached"] :
              c \in CredentialReturns, d \in {"numeric_cid", "found"},
              f \in FetchOutcomes, nm \in {"found", "no_descriptive_name"}}

\* what can happen to one Meta integration of the loop (meta_curl.py:105-146):
\* decrypt_token returns its input when it cannot decrypt, and the name
\* lookup is inside try/except
MetaAccountRuns ==
    {[complete |-> FALSE, fetch |-> "not_reached", name |-> "not_reached"]}
    \cup {[complete |-> TRUE, fetch |-> f, name |-> nm] :
              f \in FetchOutcomes, nm \in {"found", "lookup_fails"}}

\* the rows the fetch of integration a returns when it succeeds, with the
\* fields the adapter sets; campaigns of different accounts differ
AccountRows(platform, a, skip, account_name) ==
    <<[campaign_id |-> IF skip THEN NoId ELSE StrId(a), spend |-> 1,
       campaign_name |-> "name", account_name |-> account_name,
       platform |-> platform]>>

\* the secondary lookup gave no name: the Meta name request raised or
\* answered without one, the Google row has no customer.descriptiveName
nameless(run) == run.name \in {"lookup_fails", "no_descriptive_name"}

\* mutant: without the looked-up name the rows get no name
account_name_looked_up(platform, a, run) ==
    IF nameless(run) THEN <<"None", a>> ELSE <<"name", a>>

\* the account_name the rows of integration a get: the name the platform has
\* for the account, or f"Account {account_id}" when the Meta name request
\* raises or answers without a name (meta_curl.py:115-124), or the Google
\* row has no customer.descriptiveName (google_curl.py:149)
account_name_of(platform, a, run) ==
    IF nameless(run) THEN <<"Account", a>> ELSE <<"name", a>>

\* account_data of the integration: [] unless the fetch succeeded with rows
account_data(platform, a, run, skip) ==
    IF run.fetch = "rows"
    THEN AccountRows(platform, a, skip, account_name_of(platform, a, run))
    ELSE <<>>

\* fetch_and_store(days) starts: list_integrations returns n integrations;
\* with none it returns [] at once
StartUnit(platform, days) ==
    /\ unit = NoUnit
    /\ \E n \in 0..MaxIntegrations :
        unit' = [state |-> IF n = 0 THEN "returned" ELSE "running",
                 platform |-> platform, days |-> days, n |-> n, next |-> 1,
                 all_results |-> <<>>, log |-> <<>>]
    /\ UNCHANGED <<routeVars, resolveVars, table, writer, reader, fan>>

\* "if account_data: write_to_dynamodb(account_data, days);
\*  all_results.extend(account_data)": the whole batch call, whose result
\* is not looked at
StoreAccount(run, rows) ==
    IF rows = <<>>
    THEN /\ unit' = [unit EXCEPT !.next = @ + 1,
                        !.log = Append(@, [run |-> run, rows |-> rows,
                                           abandoned |-> {}])]
         /\ UNCHANGED table
    ELSE LET call == BatchWriteCall(unit.days, rows) IN
         \E abandoned \in SUBSET chunk_starts(call.items) :
             /\ table' = write_chunks(table, call.items, 1, abandoned)
             /\ unit' = [unit EXCEPT !.next = @ + 1,
                            !.all_results = @ \o rows,
                            !.log = Append(@, [run |-> run, rows |-> rows,
                                               abandoned |-> abandoned])]

\* one iteration of the loop of meta_curl.fetch_and_store
MetaAccount ==
    /\ unit.state = "running" /\ unit.platform = "meta"
    /\ unit.next <= unit.n
    /\ \E run \in MetaAccountRuns, skip \in BOOLEAN :
        /\ skip => run.fetch = "rows"
        /\ StoreAccount(run, account_data("meta", unit.next, run, skip))
    /\ UNCHANGED <<routeVars, resolveVars, writer, reader, fan>>

\* one iteration of the loop of google_curl.fetch_and_store; an error of
\* get_access_token leaves the loop and the function
GoogleAccount ==
    /\ unit.state = "running" /\ unit.platform = "google"
    /\ unit.next <= unit.n
    /\ \E run \in GoogleAccountRuns, skip \in BOOLEAN :
        /\ skip => run.fetch = "rows"
        /\ IF run.credential \in CredentialRaises
           THEN /\ unit' = [unit EXCEPT !.state = "raised",
                               !.log = Append(@, [run |-> run, rows |-> <<>>,
                                                  abandoned |-> {}])]
                /\ UNCHANGED table
           ELSE StoreAccount(run, account_data("google", unit.next, run, skip))
    /\ UNCHANGED <<routeVars, resolveVars, writer, reader, fan>>

\* the loop is over: return all_results
UnitReturns ==
    /\ unit.state = "running"
    /\ unit.next > unit.n
    /\ unit' = [unit EXCEPT !.state = "returned"]
    /\ UNCHANGED <<routeVars, resolveVars, table, writer, reader, fan>>

UnitNext ==
    \/ \E platform \in Platforms, days \in days_list : StartUnit(platform, days)
    \/ MetaAccount
    \/ GoogleAccount
    \/ UnitReturns

UnitSpec == UnitInit /\ [][UnitNext]_vars

(***************************************************************************)
(* The fan-outs of one sync_with_tracking: fetch_and_store_all() of Meta,  *)
(* then fetch_and_store_all() of Google, each on its own pool              *)
(***************************************************************************)
\* ThreadPoolExecutor(max_workers=3)
max_workers == 3

\* days_list = [7, 30, 180], in the order the units are submitted
days_order == <<7, 30, 180>>

\* the order in which sync_with_tracking calls the fan-outs
platform_order == <<"meta", "google">>

FanInit == InitCommon /\ db_initialized = TRUE

\* the units a worker of the pool is executing
Executing == {u \in Units : fan.units[u] = "running"}

\* the units of the platform that have ended, by returning or by raising
Ended(platform) ==
    {u \in Units : u[1] = platform /\ fan.units[u] \in {"returned", "threw"}}

\* mutant: the with block does not wait for its workers
pool_drained_without_wait(platform) == fan.submitted = Len(days_order)

\* the with block of fetch_and_store_all is left: every unit was submitted,
\* the as_completed loop has seen every future and shutdown(wait=True) has
\* joined the workers; an exception of future.result() is caught and printed
pool_drained(platform) ==
    /\ fan.submitted = Len(days_order)
    /\ Cardinality(Ended(platform)) = Len(days_order)

\* sync_with_tracking calls the first fan-out, which opens its pool
FanStart ==
    /\ fan = NoFan
    /\ fan' = [fan EXCEPT !.state = "fanning", !.platform = platform_order[1]]
    /\ UNCHANGED <<routeVars, resolveVars, table, writer, reader, unit>>

\* executor.submit(fetch_and_store, days) for the next entry of days_list
Submit ==
    /\ fan.state = "fanning"
    /\ fan.submitted < Len(days_order)
    /\ LET u == <<fan.platform, days_order[fan.submitted + 1]>> IN
       fan' = [fan EXCEPT !.submitted = @ + 1, !.units[u] = "queued"]
    /\ UNCHANGED <<routeVars, resolveVars, table, writer, reader, unit>>

\* a worker of the pool takes the queued unit; the pool has max_workers
\* workers
WorkerStarts(u) ==
    /\ fan.state = "fanning"
    /\ fan.units[u] = "queued"
    /\ Cardinality(Executing) < max_workers
    /\ fan' = [fan EXCEPT !.units[u] = "running", !.starts[u] = @ + 1]
    /\ UNCHANGED <<routeVars, resolveVars, table, writer, reader, unit>>

\* fetch_and_store(days) of the unit returns or raises
UnitEnds(u) ==
    /\ fan.state = "fanning"
    /\ fan.units[u] = "running"
    /\ \E outcome \in {"returned", "threw"} :
        fan' = [fan EXCEPT !.units[u] = outcome]
    /\ UNCHANGED <<routeVars, resolveVars, table, writer, reader, unit>>

\* fetch_and_store_all returns; sync_with_tracking calls the next fan-out,
\* or is through with both
NextFanOut ==
    /\ fan.state = "fanning"
    /\ pool_drained(fan.platform)
    /\ IF fan.platform = platform_order[1]
       THEN fan' = [fan EXCEPT !.platform = platform_order[2], !.submitted = 0]
       ELSE fan' = [fan EXCEPT !.state = "done"]
    /\ UNCHANGED <<routeVars, resolveVars, table, writer, reader, unit>>

FanNext ==
    \/ FanStart
    \/ Submit
    \/ \E u \in Units : WorkerStarts(u)
    \/ \E u \in Units : UnitEnds(u)
    \/ NextFanOut

FanOutSpec == FanInit /\ [][FanNext]_vars

\* every upstream call of a unit returns or fails, and the pools schedule
\* their workers
FanOutFairSpec == FanOutSpec /\ WF_vars(FanNext)

(***************************************************************************)
(* Account resolution: runs of the Google fetch_and_store_all, each window *)
(* worker going through the integrations it listed                         *)
(***************************************************************************)
ResolveInit == InitCommon /\ db_initialized = TRUE

\* the customer ids the upstream can report
ConcreteIds == {Cid(n) : n \in 1..MaxDiscovered}

\* the lists of accessible customers the upstream can hold, in any order
UpstreamLists ==
    {q \in UNION {[1..m -> ConcreteIds] : m \in 0..MaxDiscovered} :
        \A i, j \in 1..Len(q) : i # j => q[i] # q[j]}

\* the process imports one of the two Google adapters
ImportAdapter(adapter) ==
    /\ resolver.adapter = "none"
    /\ resolver' = [resolver EXCEPT !.adapter = adapter]
    /\ cache' = NoCache
    /\ probe' = NoProbe
    /\ UNCHANGED <<routeVars, storeVars, integrations, inflight>>

\* google_callback saves the integration under the owner's email
\* (entry.py:375-381), with the refresh token that access_type=offline
\* gives
LinkAccount ==
    /\ resolver.run = 0
    /\ \A key \in DOMAIN integrations : ~contains_at(key[2])
    /\ \E user_email \in OwnerEmails :
        integrations' = save_integration(integrations,
            integration_item("google", user_email, user_email,
                             Encrypted(Refresh(1)),
                             <<"Google Account", user_email>>, isoformat(now)),
            TRUE)
    /\ probe' = NoProbe
    /\ UNCHANGED <<routeVars, storeVars, cache, resolver, inflight>>

\* POST /api/integrations with a customer id (entry.py:226-237); without a
\* name the account id is the name (database.py:147)
AddIntegration ==
    /\ resolver.run = 0
    /\ <<"google", Cid(1)>> \notin DOMAIN integrations
    /\ integrations' = save_integration(integrations,
            integration_item("google", Cid(1), Email(2), Encrypted(Refresh(2)),
                             Cid(1), isoformat(now)),
            TRUE)
    /\ probe' = NoProbe
    /\ UNCHANGED <<routeVars, storeVars, cache, resolver, inflight>>

\* no worker of the current run is still going
RunOver == \A W \in days_list : resolver.w[W].pc \in {"idle", "returned", "raised"}

\* a later fetch_and_store_all opens its pool; the upstream holds some list
\* of customers for the owner during the run
StartRun ==
    /\ resolver.adapter # "none"
    /\ resolver.run < MaxSyncRuns
    /\ RunOver
    /\ \E upstream \in UpstreamLists :
        resolver' = [resolver EXCEPT !.run = @ + 1, !.upstream = upstream,
                        !.unresolved = resolver.zero,
                        !.w = [W \in days_list |-> [NoWorker EXCEPT !.pc = "submitted"]]]
    /\ now' = now + 1
    /\ UNCHANGED <<window, db_initialized, metrics, running, cb_running, resp,
                   status, ended, calls, last, faulted, storeVars,
                   integrations, cache, inflight>>
    /\ probe' = NoProbe

\* fetch_and_store(days) starts: it lists the integrations
ListAccounts(W) ==
    /\ resolver.w[W].pc = "submitted"
    /\ \E failed \in BOOLEAN :
        LET items == list_integrations(integrations, "google", failed)
            accounts == [j \in 1..Len(items) |-> account_of(items[j])]
        IN
        resolver' = [resolver EXCEPT !.w[W] =
            [@ EXCEPT !.pc = IF accounts = <<>> THEN "returned" ELSE "account",
                      !.accounts = accounts]]
    /\ probe' = NoProbe
    /\ UNCHANGED <<routeVars, storeVars, integrations, cache, inflight>>

\* the Integrations table after save_integration for the ids of found from
\* position k on; rejected = the ids whose put_item raises.  The results are
\* not looked at.
RECURSIVE save_all(_, _, _, _, _, _)
save_all(t, account, found, k, rejected, timestamp) ==
    IF k > Len(found) THEN t
    ELSE save_all(
            save_integration(t,
                integration_item("google", found[k], account.email,
                    saved_credential(account.access_token,
                                     decrypt_token(account.access_token)),
                    <<"Google Account", found[k]>>, timestamp),
                found[k] \notin rejected),
            account, found, k + 1, rejected, timestamp)

\* the rest of the iteration once the ids are known (found = what discovery
\* or the cache gave, [] without discovery): the records are saved, the
\* fetchable ids fetched, the rows of the fetches that gave any handed to
\* write_to_dynamodb, and the worker goes on to the next integration or
\* returns.  via = how the ids were come by.
FinishAccount(W, found, via) ==
    LET me == resolver.w[W]
        account == me.accounts[me.next]
        customer_ids == customer_ids_of(resolver.adapter, account.account_id, found)
        fetched == fetch_targets(customer_ids)
    IN
    /\ \E throttled \in [{found[k] : k \in 1..Len(found)} -> 0..MaxThrottled],
          with_data \in SUBSET {fetched[k] : k \in 1..Len(fetched)} :
        LET rejected == {id \in DOMAIN throttled :
                            ~put_accepted(save_integration_attempts, throttled[id])}
        IN
        /\ integrations' = save_all(integrations, account, found, 1, rejected,
                                    isoformat(now))
        /\ faulted' = (faulted \/ rejected # {})
        /\ probe' = [op |-> "resolve", days |-> W, account_id |-> account.account_id,
                     via |-> via, found |-> found, customer_ids |-> customer_ids,
                     fetched |-> fetched, stored |-> with_data,
                     throttled |-> throttled, rejected |-> rejected]
    /\ resolver' = [resolver EXCEPT
          !.zero = IF via \in {"call", "failed"} /\ found = <<>>
                   THEN @ \cup {account.email} ELSE @,
          !.w[W] = [me EXCEPT !.pc = IF me.next = Len(me.accounts)
                                     THEN "returned" ELSE "account",
                              !.next = @ + 1]]

\* the worker takes up the next integration: the credential, then either
\* the stored id, the cached list, or a discovery call.  The token is used
\* in the upstream calls only, whose outcomes are open anyway.
TakeAccount(W) ==
    LET me == resolver.w[W]
        account == me.accounts[me.next]
    IN
    /\ me.pc = "account"
    /\ \E answer \in ExchangeAnswers :
        LET credential == IF resolver.adapter = "rest"
                          THEN get_access_token(decrypt_token(account.access_token), answer)
                          ELSE [raised |-> FALSE,
                                token |-> decrypt_token(account.access_token),
                                posted |-> FALSE]
        IN
        IF credential.raised
        THEN /\ resolver' = [resolver EXCEPT !.w[W].pc = "raised"]
             /\ probe' = NoProbe
             /\ UNCHANGED <<integrations, faulted>>
        ELSE IF ~needs_discovery(account.account_id)
        THEN FinishAccount(W, <<>>, "stored")
        ELSE IF cache_hit(resolver.adapter, cache, account.email)
        THEN FinishAccount(W, cache[account.email], "cache")
        ELSE /\ resolver' = [resolver EXCEPT !.w[W].pc = "discovering"]
             /\ probe' = NoProbe
             /\ UNCHANGED <<integrations, faulted>>
    /\ UNCHANGED <<now, window, db_initialized, metrics, running, cb_running,
                   resp, status, ended, calls, last, storeVars, cache, inflight>>

\* the discovery call of the worker comes back: it failed, or it lists the
\* customers the upstream holds
Discover(W) ==
    LET me == resolver.w[W]
        account == me.accounts[me.next]
    IN
    /\ me.pc = "discovering"
    /\ \E ok \in BOOLEAN :
        LET answer == [ok |-> ok, ids |-> IF ok THEN resolver.upstream ELSE <<>>] IN
        /\ cache' = cache_after(resolver.adapter, cache, account.email, answer)
        /\ FinishAccount(W, discovered(answer), IF ok THEN "call" ELSE "failed")
    /\ UNCHANGED <<now, window, db_initialized, metrics, running, cb_running,
                   resp, status, ended, calls, last, storeVars, inflight>>

ResolveNext ==
    \/ \E adapter \in Adapters : ImportAdapter(adapter)
    \/ LinkAccount
    \/ AddIntegration
    \/ StartRun
    \/ \E W \in days_list :
        \/ ListAccounts(W)
        \/ TakeAccount(W)
        \/ Discover(W)

ResolveSpec == ResolveInit /\ [][ResolveNext]_vars

(***************************************************************************)
(* Properties                                                              *)
(***************************************************************************)
ActiveNow == get_active_timestamps(window, now)

\* C1: in every reachable state the number of active timestamps of the
\* RateLimitWindow (age < 3 hours, what status() reports as syncs_used) is at
\* most MAX_SYNCS.
C1_ActiveAtMostMaxSyncs == Len(ActiveNow) <= MAX_SYNCS

\* C2: a trigger_sync request that finds fewer than MAX_SYNCS active
\* timestamps is admitted whatever the number of syncs already running and
\* not yet recorded, so more than MAX_SYNCS syncs can be started within one
\* cooldown window.
C2_UnrecordedSyncsDoNotCount ==
    [][(TriggerSync /\ db_initialized /\ Len(ActiveNow) < MAX_SYNCS)
         => (resp'.kind = "started" /\ running' = running + 1)]_vars

\* more than MAX_SYNCS syncs started by trigger_sync are running, all of them
\* started less than COOLDOWN_HOURS ago
C2_Witness == running > MAX_SYNCS /\ now - ClockStart < COOLDOWN_HOURS

\* C6: a trigger_sync that gets can_sync = false returns the 429 detail
\* (syncs_remaining 0, next_free_at, cooldown_seconds_remaining of the
\* status), starts no thread and leaves MetricsStore and the active
\* timestamps unchanged; one that gets can_sync = true starts exactly one
\* sync_with_tracking thread and returns 'started' while that run has not
\* done anything yet.
C6_TriggerSyncOutcome ==
    [][(TriggerSync /\ db_initialized) =>
        /\ metrics' = metrics
        /\ get_active_timestamps(window', now') = get_active_timestamps(window, now')
        /\ cb_running' = cb_running
        /\ ended' = NoRun
        /\ IF ~status'.can_sync
           THEN /\ resp'.kind = "429"
                /\ resp'.syncs_remaining = 0
                /\ resp'.next_free_at = status'.next_free_at
                /\ resp'.next_free_at # None
                /\ resp'.cooldown_seconds_remaining
                     = status'.cooldown_seconds_remaining
                /\ running' = running
           ELSE /\ resp'.kind = "started"
                /\ running' = running + 1]_vars

\* a trigger_sync has just been rejected while syncs are still running
C6_Witness == resp.kind = "429" /\ ~status.can_sync /\ running > 0

\* C7: every orchestrated sync run, started by trigger_sync or by an OAuth
\* callback, started after get_status() answered can_sync = true and is
\* recorded with record_sync() when it completes.
C7_RunsPermittedAndRecorded ==
    ended.origin # "none" => (ended.permitted /\ ended.recorded)

\* C8: record_sync() is called for a background sync run only if none of its
\* six units threw.
C8_RecordedOnlyIfNoUnitThrew == ended.recorded => ~ended.threw

\* C9: a trigger_sync call returns the 'started' acknowledgment or the 429
\* rejection, never another error.
C9_StartedOrRejected == resp.kind \in {"none", "started", "429"}

(***************************************************************************)
(* Properties of the tracker driver (TrackerSpec)                          *)
(***************************************************************************)
\* the record_sync() calls made less than COOLDOWN_HOURS before clock value t
CallsWithin(t) == {i \in 1..Len(calls) : t - calls[i] < COOLDOWN_HOURS}

\* the step was a get_status() call (whose first clock read was last.t1)
StatusCalled == last.op = "status"

\* C3: with no storage failure, status().syncs_used is the number of
\* record_sync() calls made less than COOLDOWN_HOURS before the status() call,
\* syncs_remaining is max(0, MAX_SYNCS - syncs_used) and never negative, and
\* with no call at all status() returns used 0, remaining 3, can_sync true.
C3_UsedCountsCallsInWindow ==
    (StatusCalled /\ ~faulted) =>
        /\ status.syncs_used = Cardinality(CallsWithin(last.t1))
        /\ status.syncs_remaining
             = (IF status.syncs_used >= MAX_SYNCS THEN 0
                ELSE MAX_SYNCS - status.syncs_used)
        /\ status.syncs_remaining >= 0
        /\ (calls = <<>> =>
              /\ status.syncs_used = 0
              /\ status.syncs_remaining = MAX_SYNCS
              /\ status.can_sync)

\* status() after more calls than MAX_SYNCS, some of them already expired
C3_Witness ==
    /\ StatusCalled /\ ~faulted
    /\ Len(calls) > MAX_SYNCS
    /\ status.syncs_used > 0
    /\ status.syncs_used < Len(calls)

\* the driver made exactly three record_sync() calls, all at one instant
ThreeAtOnce == Len(calls) = 3 /\ calls[1] = calls[2] /\ calls[2] = calls[3]

\* C4: after 3 record_sync() calls at one instant t, status() returns
\* can_sync = false with cooldown_seconds_remaining the time left until
\* t + 3h (10800 s at t); from t + 3h on, status() returns can_sync = true,
\* syncs_used = 0 and has persisted the empty list.
C4_BlockedThenFreed ==
    (StatusCalled /\ ~faulted /\ ThreeAtOnce) =>
        LET t == calls[1]
            left == t + COOLDOWN_HOURS - last.t2
        IN  IF last.t1 < t + COOLDOWN_HOURS
            THEN /\ ~status.can_sync
                 /\ status.cooldown_seconds_remaining
                      = (IF left > 0 THEN left * SecondsPerHour ELSE 0)
                 /\ (last.t2 = t => status.cooldown_seconds_remaining = 10800)
            ELSE /\ status.can_sync
                 /\ status.syncs_used = 0
                 /\ window = <<>>

\* the status() call that found the three expired timestamps and pruned them
C4_Witness ==
    /\ StatusCalled /\ ~faulted /\ ThreeAtOnce
    /\ last.t1 >= calls[1] + COOLDOWN_HOURS
    /\ Len(last.before) = 3
    /\ status.can_sync

\* the indices of the list found by the call that were active at its clock read
ActiveFound == {i \in 1..Len(last.before) :
                  last.t1 - fromisoformat(last.before[i]) < COOLDOWN_HOURS}

\* C5: every status() result has can_sync true exactly when fewer than 3
\* timestamps are active; when can_sync is false, next_free_at is the oldest
\* active timestamp + 3h and cooldown_seconds_remaining is
\* max(0, next_free_at - now); when can_sync is true, next_free_at is absent
\* and cooldown_seconds_remaining is 0.
C5_StatusShape ==
    StatusCalled =>
        /\ status.can_sync <=> status.syncs_used < MAX_SYNCS
        /\ ~last.readFail => status.syncs_used = Cardinality(ActiveFound)
        /\ status.can_sync =>
              /\ status.next_free_at = None
              /\ status.cooldown_seconds_remaining = 0
        /\ ~status.can_sync =>
              LET free_at == fromisoformat(status.next_free_at)
                  left == free_at - last.t2
              IN  /\ status.next_free_at # None
                  /\ \E i \in ActiveFound :
                        free_at = fromisoformat(last.before[i]) + COOLDOWN_HOURS
                  /\ \A i \in ActiveFound :
                        free_at <= fromisoformat(last.before[i]) + COOLDOWN_HOURS
                  /\ status.cooldown_seconds_remaining
                       = (IF left > 0 THEN left * SecondsPerHour ELSE 0)

\* a blocked status() whose second clock read came after next_free_at
C5_Witness ==
    /\ StatusCalled
    /\ ~status.can_sync
    /\ last.t2 > fromisoformat(status.next_free_at)

\* C10: a storage error while reading makes status() answer as on an empty
\* window (syncs_used 0, can_sync true); a storage error while writing, in
\* status() or in record_sync(), leaves the persisted window as it was.
C10_StorageErrorsSwallowed ==
    /\ (StatusCalled /\ last.readFail) =>
          /\ status.syncs_used = 0
          /\ status.syncs_remaining = MAX_SYNCS
          /\ status.can_sync
    /\ (last.op \in {"status", "record"} /\ last.writeFail) =>
          window = last.before

\* a status() call whose read failed on a window holding MAX_SYNCS active
\* timestamps
C10_Witness ==
    /\ StatusCalled /\ last.readFail
    /\ Cardinality(ActiveFound) >= MAX_SYNCS

\* the timestamps of the list the call found that were younger than
\* COOLDOWN_HOURS at its clock read, in stored order
YoungFound ==
    SelectSeq(last.before,
              LAMBDA ts : last.t1 - COOLDOWN_HOURS < fromisoformat(ts))

\* C11: a status() call without storage failure leaves the persisted list equal
\* to the stored timestamps younger than 3 hours (none removed, none added),
\* and the persisted list changes if and only if at least one stored
\* timestamp had expired; with a storage failure it writes nothing.
C11_StatusWritesOnlyToPrune ==
    StatusCalled =>
        IF last.readFail \/ last.writeFail
        THEN window = last.before
        ELSE /\ window = YoungFound
             /\ (window # last.before) <=> (Len(YoungFound) < Len(last.before))
             /\ \A i \in 1..Len(window) :
                    \E j \in 1..Len(last.before) : window[i] = last.before[j]

\* a status() call that pruned an expired timestamp and kept an active one
C11_Witness ==
    /\ StatusCalled /\ ~last.readFail /\ ~last.writeFail
    /\ window # <<>>
    /\ Len(window) < Len(last.before)

(***************************************************************************)
(* Properties of the metrics table (StoreSpec, BatchSpec)                  *)
(***************************************************************************)
\* the position among the prepared items of row j of the call's campaigns
item_pos(campaigns, j) ==
    Cardinality({h \in 1..j : truthy(campaigns[h].campaign_id)})

\* the start of the chunk that holds the item at position p
chunk_start_of(p) == ((p - 1) \div batch_size) * batch_size + 1

\* row j of call w carried a campaign id and its chunk was written
RowWritten(w, j) ==
    /\ truthy(w.campaigns[j].campaign_id)
    /\ chunk_start_of(item_pos(w.campaigns, j)) \notin w.abandoned

\* the stored item has every field of the row with the row's value
SameFields(item, row) ==
    /\ DOMAIN row \subseteq DOMAIN item
    /\ \A f \in DOMAIN row : item[f] = row[f]

\* number of times the key occurs in the rows a read returned
Occurrences(rows, k) == Cardinality({i \in 1..Len(rows) : key_of(rows[i]) = k})

\* C12: a row written by batch_write_campaign_metrics for window W is stored
\* with the field values it was written with, and read_campaign_metrics(W)
\* returns every stored row of window W exactly once with its stored field
\* values, on the index path and on the scan fallback.
C12_RoundTrip ==
    /\ \A W \in days_list :
          (writer[W].op = "batch" /\ writer[W].returned) =>
              \A j \in 1..Len(writer[W].campaigns) :
                  RowWritten(writer[W], j) =>
                      LET k == <<writer[W].campaigns[j].campaign_id, W>>
                      IN  /\ k \in DOMAIN table
                          /\ SameFields(table[k], writer[W].campaigns[j])
    /\ reader.path # "none" =>
          \A k \in matching(table, reader.range_days) :
              /\ Occurrences(reader.rows, k) = 1
              /\ \A i \in 1..Len(reader.rows) :
                    key_of(reader.rows[i]) = k => reader.rows[i] = table[k]

\* C13: read_campaign_metrics(W) served by the scan fallback returns the rows
\* the index path returns: exactly the stored rows whose range_days is W.
C13_ScanEqualsIndex ==
    reader.path = "scan" =>
        /\ reader.rows = query_all(table, reader.range_days)
        /\ {reader.rows[i] : i \in 1..Len(reader.rows)}
             = {table[k] : k \in matching(table, reader.range_days)}

\* the batch calls of a call's log made for the chunk that starts at c
IssuedFor(w, c) == {e \in 1..Len(w.issued) : w.issued[e].start = c}

\* the call has returned and none of its batch calls was rejected
ReturnedUnrejected(w) ==
    /\ w.op = "batch" /\ w.returned
    /\ \A e \in 1..Len(w.issued) : w.issued[e].outcome = "ok"

\* C14: batch_write_campaign_metrics over n rows that carry a campaign id,
\* with no write rejected, issues exactly ceil(n/25) batch calls, each with at
\* most 25 items, and every row is in exactly one chunk; 37 rows give two
\* calls of 25 and 12 items.
C14_ChunksOfTwentyFive ==
    \A W \in days_list :
        LET w == writer[W]
            n == Cardinality({j \in 1..Len(w.campaigns) :
                                truthy(w.campaigns[j].campaign_id)})
        IN  ReturnedUnrejected(w) =>
              /\ Len(w.items) = n
              /\ Len(w.issued) * 25 >= n
              /\ (Len(w.issued) - 1) * 25 < n \/ (n = 0 /\ w.issued = <<>>)
              /\ \A e \in 1..Len(w.issued) :
                    /\ w.issued[e].size <= 25
                    /\ w.issued[e].size >= 1
              /\ \A p \in 1..n :
                    Cardinality({e \in 1..Len(w.issued) :
                        /\ w.issued[e].start <= p
                        /\ p < w.issued[e].start + w.issued[e].size}) = 1
              /\ n = 37 =>
                    /\ Len(w.issued) = 2
                    /\ w.issued[1].size = 25
                    /\ w.issued[2].size = 12

\* a returned call over 38 rows, 37 of them with a campaign id, none rejected
C14_Witness ==
    \E W \in days_list :
        /\ ReturnedUnrejected(writer[W])
        /\ Len(writer[W].campaigns) = 38
        /\ Len(writer[W].items) = 37
        /\ Len(writer[W].issued) = 2

\* C15: for each chunk the batch call is issued at most 5 times, every
\* attempt but the last one rejected with throughput-exceeded; after 5
\* rejections the chunk is abandoned, nothing is raised and the later chunks
\* are attempted; a chunk whose attempt succeeded is not issued again.
C15_FiveAttemptsPerChunk ==
    \A W \in days_list :
        LET w == writer[W] IN
        w.op = "batch" =>
          /\ \A c \in chunk_starts(w.items) :
                /\ Cardinality(IssuedFor(w, c)) <= 5
                /\ \A e \in IssuedFor(w, c) :
                      /\ w.issued[e].attempt
                           = Cardinality({d \in IssuedFor(w, c) : d <= e})
                      /\ (\E d \in IssuedFor(w, c) : d > e)
                            => w.issued[e].outcome = "throughput"
                /\ (/\ Cardinality(IssuedFor(w, c)) = 5
                    /\ \A e \in IssuedFor(w, c) : w.issued[e].outcome = "throughput")
                      => /\ c \in w.abandoned
                         /\ w.i > c
                         /\ (w.active \/ w.returned)
          /\ \A e \in 1..Len(w.issued) : w.issued[e].start \in chunk_starts(w.items)
          /\ \A d, e \in 1..Len(w.issued) :
                d < e => w.issued[d].start <= w.issued[e].start
          /\ w.returned =>
                \A c \in chunk_starts(w.items) : IssuedFor(w, c) # {}

\* a returned call whose first chunk was rejected five times and whose
\* second chunk was then written by its third attempt
C15_Witness ==
    \E W \in days_list :
        LET w == writer[W] IN
        /\ w.returned /\ w.abandoned = {1}
        /\ Cardinality(IssuedFor(w, 1)) = 5
        /\ Cardinality(IssuedFor(w, 26)) = 3
        /\ w.issued[Len(w.issued)].outcome = "ok"
        /\ \E k \in DOMAIN table : k[1].v > 25

\* the fields a stored item has besides those of the row it was built from
AddedFields == {"campaign_id", "range_days", "last_synced"}

\* C16: after a write (batch or single) of row r2 to a key, the store holds at
\* that key the item of r2 and nothing else: its spend is r2's and a field
\* the previous row r1 had but r2 lacks is gone.
C16_WriteReplacesRow ==
    \A W \in days_list :
        LET w == writer[W] IN
        (w.returned /\ w.op \in {"batch", "single"}) =>
            \A j \in 1..Len(w.campaigns) :
                (IF w.op = "batch" THEN RowWritten(w, j) ELSE w.abandoned = {}) =>
                    LET row == w.campaigns[j]
                        k == <<row.campaign_id, W>>
                    IN  /\ k \in DOMAIN table
                        /\ table[k].spend = row.spend
                        /\ DOMAIN table[k] = (DOMAIN row) \cup AddedFields
                        /\ SameFields(table[k], row)
                        /\ table[k].range_days = W
                        /\ Occurrences(query_all(table, W), k) = 1

\* a write of a second-generation row over a first-generation row of the
\* same key: other spend, no campaign_name
C16_Witness ==
    \E W \in days_list :
        LET w == writer[W] IN
        /\ w.returned /\ w.op = "batch" /\ w.abandoned = {}
        /\ \E j \in 1..Len(w.campaigns) :
              LET k == <<w.campaigns[j].campaign_id, W>> IN
              /\ truthy(w.campaigns[j].campaign_id)
              /\ k \in DOMAIN w.before
              /\ "campaign_name" \in DOMAIN w.before[k]
              /\ w.before[k].spend # w.campaigns[j].spend
              /\ "campaign_name" \notin DOMAIN table[k]

(***************************************************************************)
(* Properties of the concurrent window workers (WorkersSpec)               *)
(***************************************************************************)
\* the step left every row of a window other than W as it was
OtherWindowsUntouched(W) ==
    \A k \in (DOMAIN table) \cup (DOMAIN table') :
        k[2] # W => /\ k \in DOMAIN table
                    /\ k \in DOMAIN table'
                    /\ table'[k] = table[k]

\* the table left by the workers' calls made one after another, in the order
\* of the given windows
Sequentially(W1, W2, W3) ==
    write_chunks(
        write_chunks(
            write_chunks(EmptyTable, writer[W1].items, 1, writer[W1].abandoned),
            writer[W2].items, 1, writer[W2].abandoned),
        writer[W3].items, 1, writer[W3].abandoned)

AllReturned == \A W \in days_list : writer[W].returned

\* C17: under any interleaving of the window workers, a batch call for window
\* W never creates, changes or removes a row of another window, and when all
\* workers have returned the table equals the one left by running their
\* calls one after another.
C17_WindowsNeverCollide ==
    /\ [][\A W \in days_list : IssueChunk(W) => OtherWindowsUntouched(W)]_vars
    /\ [](AllReturned =>
            /\ table = Sequentially(7, 30, 180)
            /\ table = Sequentially(180, 30, 7))

\* all three workers have returned, each wrote the same campaign, one of them
\* after a throughput rejection
C17_Witness ==
    /\ AllReturned
    /\ \A W \in days_list : <<StrId(1), W>> \in DOMAIN table
    /\ \E W \in days_list : Len(writer[W].issued) > 1

(***************************************************************************)
(* Properties of one unit (UnitSpec)                                       *)
(***************************************************************************)
\* the rows of the log's integrations from position j on, in order
RECURSIVE RowsOfLog(_, _)
RowsOfLog(log, j) ==
    IF j > Len(log) THEN <<>> ELSE log[j].rows \o RowsOfLog(log, j + 1)

\* the row is among the rows read_campaign_metrics(W) returns on the index
\* path
Readable(row, W) ==
    \E i \in 1..Len(query_all(table, W)) :
        SameFields(query_all(table, W)[i], row)

\* C18: every row of the list fetch_and_store(W) returned has been written
\* to the table: after the call returns, each returned row is among the rows
\* read_campaign_metrics(W) returns.
C18_ReturnedRowsAreStored ==
    unit.state = "returned" =>
        \A j \in 1..Len(unit.all_results) :
            Readable(unit.all_results[j], unit.days)

\* C19: a failure at a per-account step of one integration is absorbed:
\* fetch_and_store does not raise, it reaches every integration, and it
\* returns exactly the rows of the accounts whose fetch succeeded.
C19_AccountFailureAbsorbed ==
    /\ unit.state # "raised"
    /\ unit.state = "returned" =>
          /\ Len(unit.log) = unit.n
          /\ unit.all_results = RowsOfLog(unit.log, 1)

(***************************************************************************)
(* Properties of the fan-outs (FanOutFairSpec)                             *)
(***************************************************************************)
FanDone ==
    /\ fan.state = "done"
    /\ \A u \in Units : fan.starts[u] = 1 /\ fan.units[u] \in {"returned", "threw"}

\* C20: one sync_with_tracking starts each of the 6 (platform, window) units
\* exactly once, at most 3 units execute at any moment, and whatever units
\* throw, every unit is started and runs to its end.
C20_SixUnitsThreeAtATime ==
    /\ [](\A u \in Units : fan.starts[u] <= 1)
    /\ [](Cardinality(Executing) <= 3)
    /\ [](fan.state = "done" => FanDone)
    /\ <>FanDone

\* both fan-outs are over, a unit of each platform threw, and every unit was
\* started once
C20_Witness ==
    /\ FanDone
    /\ \E W \in days_list : fan.units[<<"meta", W>>] = "threw"
    /\ \E W \in days_list : fan.units[<<"google", W>>] = "threw"

\* ---------------------------------------------------------------------
\* Account resolution (ResolveSpec)
\* ---------------------------------------------------------------------

\* the integration worker W is at
Current(W) == resolver.w[W].accounts[resolver.w[W].next]

\* worker W finishes (in this step) the iteration for the integration it is
\* at, without the credential raising
Resolves(W) ==
    /\ resolver.w[W].pc \in {"account", "discovering"}
    /\ resolver'.w[W].pc \in {"account", "returned"}
    /\ resolver'.w[W].next = resolver.w[W].next + 1

\* C21: resolving an integration whose stored account id is concrete (no
\* "@") gives exactly the one-element list of that id, with no discovery
\* call and no write to the Integrations table.
C21_ConcreteIdIsItsOwnList ==
    [][\A W \in days_list :
        (/\ resolver.w[W].pc = "account"
         /\ ~contains_at(Current(W).account_id)
         /\ resolver'.w[W] # resolver.w[W]
         /\ resolver'.w[W].pc # "raised")
        => /\ Resolves(W)
           /\ probe'.via = "stored"
           /\ probe'.customer_ids = <<Current(W).account_id>>
           /\ integrations' = integrations
           /\ cache' = cache]_vars

C21_Witness ==
    /\ probe.op = "resolve"
    /\ probe.via = "stored"
    /\ ~contains_at(probe.account_id)
    /\ probe.customer_ids = <<probe.account_id>>

\* the Integrations key of a Google account id
GoogleKey(id) == <<"google", id>>

\* the record of customer id for the owner of the placeholder account,
\* whatever its last_synced
RecordFor(item, id, account) ==
    /\ item.platform = "google"
    /\ item.account_id = id
    /\ item.email = account.email
    /\ item.access_token = account.access_token
    /\ item.status = "Active"

C24_UnresolvedIsTriedAgain ==
    [][\A W \in days_list :
        (/\ resolver.w[W].pc = "account"
         /\ contains_at(Current(W).account_id)
         /\ Current(W).email \in resolver.unresolved
         /\ resolver'.w[W] # resolver.w[W]
         /\ resolver'.w[W].pc # "raised")
        => resolver'.w[W].pc = "discovering"]_vars

\* C25: a discovery result cached under an owner email lives for one run
\* only: a list taken from the cache is the list a discovery of the current
\* run gave, never that of an earlier run.
C25_CacheLivesOneRun ==
    [][(probe'.op = "resolve" /\ probe'.via = "cache")
        => probe'.found = resolver.upstream]_vars

\* C30: the write of an Integration record is retried on a throughput
\* rejection like the metric single-item write (up to 5 put_item calls): a
\* record whose put is rejected fewer times than that is in the table when
\* the save returns.
C30_IntegrationWriteRetried ==
    [][\A W \in days_list :
        (Resolves(W) /\ probe'.found # <<>>)
        => \A id \in DOMAIN probe'.throttled :
            put_accepted(write_campaign_metrics_attempts, probe'.throttled[id])
            => /\ GoogleKey(id) \in DOMAIN integrations'
               /\ integrations'[GoogleKey(id)].last_synced = isoformat(now)]_vars

(***************************************************************************)
(* The adapters' calls one at a time (AdapterSpec): the credential         *)
(* exchange, the Meta insights request and the Google search request       *)
(***************************************************************************)
\* "limit": 500 of the insights request (meta_curl.py:62)
limit == 500

\* the campaign rows of an account are numbered 1..remote; the k-th page of
\* the insights edge holds the next limit of them
page(remote, k) ==
    [j \in 1..(IF remote - (k - 1) * limit < limit
               THEN (IF remote > (k - 1) * limit THEN remote - (k - 1) * limit ELSE 0)
               ELSE limit) |-> (k - 1) * limit + j]

\* the response of the k-th request: data, and paging.next when rows remain
insights_response(remote, k) ==
    [data |-> page(remote, k), next |-> remote > k * limit]

\* fetch_for_account (meta_curl.py:37-78): one GET; r.json().get("data", []),
\* or [] when the request raises.  paging is not read.
fetch_for_account(remote, status_ok) ==
    IF status_ok THEN insights_response(remote, 1).data ELSE <<>>

\* exact quotients, as numerator and denominator
Quotient(num, den) == [num |-> num, den |-> den]

\* float(metrics.get("costMicros", 0)) / 1_000_000
spend_of(costMicros) == Quotient(costMicros, 1000000)

\* mutant: the quotient is taken whatever the spend
roas_of_unguarded(conv_value, spend) ==
    IF spend.num = 0
    THEN [raised |-> TRUE, value |-> Quotient(0, 1)]
    ELSE [raised |-> FALSE, value |-> Quotient(conv_value * spend.den, spend.num)]

\* roas = conv_value / spend if spend > 0 else 0; raised = ZeroDivisionError
roas_of(conv_value, spend) ==
    IF spend.num > 0
    THEN [raised |-> FALSE, value |-> Quotient(conv_value * spend.den, spend.num)]
    ELSE [raised |-> FALSE, value |-> Quotient(0, 1)]

\* the rows a search response can hold
SearchRows ==
    [id : 1..MaxSearchRows, costMicros : 0..MaxCostMicros,
     conversionsValue : 0..MaxConversionsValue]

\* the output row of one result row (google/google_curl.py:134-156)
formatted(row) ==
    LET spend == spend_of(row.costMicros) IN
    [campaign_id |-> row.id, spend |-> spend,
     website_purchase_roas |-> roas_of(row.conversionsValue, spend).value,
     action_values |-> row.conversionsValue, platform |-> "google"]

\* fetch_for_customer (google/google_curl.py:77-166): the rows of the
\* response transformed in order; an exception anywhere gives []
fetch_for_customer(rows, status_ok) ==
    IF ~status_ok THEN <<>>
    ELSE IF \E k \in 1..Len(rows) :
                roas_of(rows[k].conversionsValue, spend_of(rows[k].costMicros)).raised
    THEN <<>>
    ELSE [k \in 1..Len(rows) |-> formatted(rows[k])]

AdapterInit == InitCommon /\ db_initialized = TRUE

\* get_access_token(stored_token) against a token endpoint that answers
ExchangeToken ==
    /\ probe = NoProbe
    /\ \E stored_token \in {Bearer(1), Refresh(1), Refresh(2)},
          answer \in ExchangeAnswers :
        probe' = [op |-> "get_access_token", stored_token |-> stored_token,
                  answer |-> answer,
                  out |-> get_access_token(stored_token, answer)]
    /\ UNCHANGED <<routeVars, storeVars, integrations, cache, resolver, inflight>>

\* fetch_for_account for an account with remote campaign rows in the window
FetchInsights ==
    /\ probe = NoProbe
    /\ \E remote \in 0..MaxRemoteRows, status_ok \in BOOLEAN :
        probe' = [op |-> "fetch_for_account", remote |-> remote,
                  status_ok |-> status_ok,
                  data |-> fetch_for_account(remote, status_ok)]
    /\ UNCHANGED <<routeVars, storeVars, integrations, cache, resolver, inflight>>

\* fetch_for_customer for a customer whose search response holds rows
FetchSearch ==
    /\ probe = NoProbe
    /\ \E n \in 0..MaxSearchRows, status_ok \in BOOLEAN :
        \E rows \in [1..n -> SearchRows] :
            /\ \A k \in 1..n : rows[k].id = k
            /\ probe' = [op |-> "fetch_for_customer", rows |-> rows,
                         status_ok |-> status_ok,
                         data |-> fetch_for_customer(rows, status_ok)]
    /\ UNCHANGED <<routeVars, storeVars, integrations, cache, resolver, inflight>>

\* the caller takes the result; the next call is independent of it
CallReturns ==
    /\ probe # NoProbe
    /\ probe' = NoProbe
    /\ UNCHANGED <<routeVars, storeVars, integrations, cache, resolver, inflight>>

AdapterNext ==
    \/ ExchangeToken
    \/ FetchInsights
    \/ FetchSearch
    \/ CallReturns

AdapterSpec == AdapterInit /\ [][AdapterNext]_vars

\* C26: get_access_token returns a stored bearer token unchanged without
\* calling the token endpoint; otherwise it returns the exchanged token
\* when the exchange succeeds, and the stored value unchanged, without
\* raising, on every failed exchange (non-2xx, no token in the response,
\* transport error).
C26_ExchangeFallsBack ==
    probe.op = "get_access_token" =>
        /\ ~probe.out.raised
        /\ probe.stored_token.prefix = "ya29."
            => probe.out.token = probe.stored_token /\ ~probe.out.posted
        /\ probe.stored_token.prefix # "ya29."
            => IF probe.answer = "ok_token"
               THEN probe.out.token = Bearer(probe.stored_token.n + 1)
               ELSE probe.out.token = probe.stored_token

\* C27: a fetch for an account and window returns every campaign row the
\* remote holds for it, also when they span several pages of 500 rows.
C27_AllPagesReturned ==
    (probe.op = "fetch_for_account" /\ probe.status_ok) =>
        probe.data = [j \in 1..probe.remote |-> j]

\* C28: every row the Google adapter produces has spend = cost / 1,000,000
\* and return-on-spend = conversion value / spend when spend > 0 and 0 when
\* spend = 0; a row with spend 0 yields an output row like any other, with
\* no division error.
C28_SpendAndRoas ==
    (probe.op = "fetch_for_customer" /\ probe.status_ok) =>
        /\ Len(probe.data) = Len(probe.rows)
        /\ \A k \in 1..Len(probe.data) :
            LET row == probe.rows[k]
                out == probe.data[k]
            IN
            /\ out.campaign_id = row.id
            /\ out.spend.num * 1000000 = row.costMicros * out.spend.den
            /\ IF row.costMicros > 0
               THEN out.website_purchase_roas.num * out.spend.num
                        = row.conversionsValue * out.spend.den
                            * out.website_purchase_roas.den
               ELSE out.website_purchase_roas.num = 0

\* a response with a row of spend 0 and a row with spend and conversions
C28_Witness ==
    /\ probe.op = "fetch_for_customer"
    /\ probe.status_ok
    /\ Len(probe.data) = 2
    /\ probe.rows[1].costMicros = 0
    /\ probe.rows[1].conversionsValue > 0
    /\ probe.rows[2].costMicros > 0
    /\ probe.rows[2].conversionsValue > 0

(***************************************************************************)
(* Properties of the row tags (UnitSpec)                                   *)
(***************************************************************************)
\* C29: every metric row the unit writes to the table carries the unit's
\* platform and an account display name; when the name lookup of an account
\* fails the name is "Account {id}", and the rows of the account are written
\* all the same.
C29_RowsCarryPlatformAndName ==
    /\ \A key \in DOMAIN table :
        /\ table[key].platform = unit.platform
        /\ \E a \in 1..unit.n :
            table[key].account_name \in {<<"name", a>>, <<"Account", a>>}
    /\ \A a \in 1..Len(unit.log) :
        LET entry == unit.log[a] IN
        (entry.run.fetch = "rows" /\ nameless(entry.run))
        => /\ entry.rows # <<>>
           /\ \A k \in 1..Len(entry.rows) :
                /\ entry.rows[k].account_name = <<"Account", a>>
                /\ entry.rows[k].platform = unit.platform
                /\ (entry.abandoned = {} /\ truthy(entry.rows[k].campaign_id))
                    => Readable(entry.rows[k], unit.days)

\* the rows of an account whose name lookup failed are in the table
C29_Witness ==
    /\ unit.platform = "meta"
    /\ \E a \in 1..Len(unit.log) :
        /\ unit.log[a].run.fetch = "rows"
        /\ nameless(unit.log[a].run)
        /\ unit.log[a].abandoned = {}
        /\ \E key \in DOMAIN table : table[key].account_name = <<"Account", a>>

(***************************************************************************)
(* The cached reads (InsightsSpec): get_cached_insights of the two         *)
(* adapters over a table that holds rows with and without a platform field *)
(***************************************************************************)
\* mutant: every row gets the adapter's constant
get_cached_insights_overrides(platform, data) ==
    [j \in 1..Len(data) |->
        [f \in (DOMAIN data[j]) \cup {"platform"} |->
            IF f = "platform" THEN platform ELSE data[j][f]]]

\* get_cached_insights (meta_curl.py:175-184, google_curl.py:266-275), given
\* the rows read_campaign_metrics returned: `if 'platform' not in row:
\* row['platform'] = 'meta'` (or 'google')
get_cached_insights(platform, data) ==
    [j \in 1..Len(data) |->
        [f \in (DOMAIN data[j]) \cup {"platform"} |->
            IF f \in DOMAIN data[j] THEN data[j][f] ELSE platform]]

InsightsInit == InitCommon /\ db_initialized = TRUE

\* a row of campaign c as an earlier write left it: without a platform
\* field (rows written before the adapters tagged them), or tagged
StoredRows(c) ==
    {Fetch(c, {}, 1)[c]}
    \cup {AccountRows(platform, c, FALSE, <<"name", c>>)[1] : platform \in Platforms}

\* an earlier sync wrote the row of a campaign for window W
RowStored(W) ==
    /\ probe = NoProbe
    /\ \E c \in 1..MaxCampaigns :
        \E row \in StoredRows(c) :
            table' = put_items(table, prepare_items(<<row>>, W, isoformat(now)))
    /\ UNCHANGED <<routeVars, writer, reader, unit, fan, integrations, cache,
                   resolver, probe, inflight>>

\* GET /api/insights and each of the six reads of GET /api/insights/all
\* (entry.py:142-165): get_cached_insights(W) of one adapter, the whole call
GetCachedInsights(platform, W) ==
    /\ probe = NoProbe
    /\ \E failAt \in 0..MaxFailAt :
        \E scanned \in IF failAt = 0 \/ failAt > query_calls(table, W)
                       THEN {{}} ELSE scan_pages(table) :
            LET read == read_campaign_metrics(table, W, failAt, scanned) IN
            probe' = [op |-> "get_cached_insights", platform |-> platform,
                      range_days |-> W, data |-> read.rows,
                      rows |-> get_cached_insights(platform, read.rows)]
    /\ UNCHANGED <<routeVars, storeVars, integrations, cache, resolver, inflight>>

\* the response is sent
InsightsReturned ==
    /\ probe # NoProbe
    /\ probe' = NoProbe
    /\ UNCHANGED <<routeVars, storeVars, integrations, cache, resolver, inflight>>

InsightsNext ==
    \/ \E W \in days_list : RowStored(W)
    \/ \E platform \in Platforms, W \in days_list : GetCachedInsights(platform, W)
    \/ InsightsReturned

InsightsSpec == InsightsInit /\ [][InsightsNext]_vars

\* C31: get_cached_insights(W) returns the rows read_campaign_metrics(W)
\* gave, where a row without a platform field gets the adapter's constant
\* and a row with one keeps it; no other field changes, and the call starts
\* no fetch and changes neither the metrics table nor the tracker record.
C31_CachedReadDefaultsPlatform ==
    [][probe'.op = "get_cached_insights" =>
        /\ Len(probe'.rows) = Len(probe'.data)
        /\ \A j \in 1..Len(probe'.data) :
            LET row == probe'.data[j]
                out == probe'.rows[j]
            IN
            /\ DOMAIN out = (DOMAIN row) \cup {"platform"}
            /\ \A f \in DOMAIN row : out[f] = row[f]
            /\ "platform" \notin DOMAIN row => out.platform = probe'.platform
        /\ table' = table
        /\ window' = window
        /\ running' = running /\ cb_running' = cb_running
        /\ unit' = unit /\ fan' = fan]_vars

\* the meta read returns a legacy row as meta and a google row as google
C31_Witness ==
    /\ probe.op = "get_cached_insights"
    /\ probe.platform = "meta"
    /\ \E j \in 1..Len(probe.data) :
        "platform" \notin DOMAIN probe.data[j] /\ probe.rows[j].platform = "meta"
    /\ \E j \in 1..Len(probe.data) :
        /\ "platform" \in DOMAIN probe.data[j]
        /\ probe.data[j].platform = "google"
        /\ probe.rows[j].platform = "google"

\* C32: no step of the syncs, discoveries and account links removes an
\* Integration record: the set of stored (platform, account id) keys never
\* shrinks.
C32_IntegrationsNeverRemoved ==
    [][DOMAIN integrations \subseteq DOMAIN integrations']_vars

\* a sync has split the placeholder into a record per customer and the
\* placeholder's record is still there
C32_Witness ==
    /\ probe.op = "resolve"
    /\ probe.found # <<>>
    /\ probe.rejected = {}
    /\ GoogleKey(probe.account_id) \in DOMAIN integrations
    /\ GoogleKey(probe.found[1]) \in DOMAIN integrations

(***************************************************************************)
(* Concurrent tracker calls (RaceSpec): the request threads and the        *)
(* background sync threads call get_status() and record_sync() on the one  *)
(* SyncTracking item; each call reads the item, then writes it back        *)
(***************************************************************************)
RaceInit == InitCommon /\ db_initialized = TRUE

\* tracker = self._get_tracker() of a get_status() or record_sync() call
\* (sync_tracker.py:83, 120)
ReadTracker(c, op) ==
    /\ inflight[c].op = "none"
    /\ op = "record" => Len(calls) < MaxCalls
    /\ inflight' = [inflight EXCEPT ![c] =
          [op |-> op, sync_timestamps |-> get_tracker(window, FALSE)]]
    /\ UNCHANGED <<routeVars, storeVars, integrations, cache, resolver, probe>>

\* the rest of the call: the list it read is filtered, and put back pruned
\* (get_status, when something expired) or with the new timestamp
\* (record_sync); put_item replaces the item whatever it holds by now
WriteTracker(c) ==
    LET active == get_active_timestamps(inflight[c].sync_timestamps, now) IN
    /\ inflight[c].op # "none"
    /\ IF inflight[c].op = "record"
       THEN /\ window' = save_tracker(window, Append(active, isoformat(now)), FALSE)
            /\ calls' = Append(calls, now)
       ELSE /\ window' = IF Len(active) # Len(inflight[c].sync_timestamps)
                         THEN save_tracker(window, active, FALSE)
                         ELSE window
            /\ UNCHANGED calls
    /\ inflight' = [inflight EXCEPT ![c] = NoInflight[c]]
    /\ UNCHANGED <<now, db_initialized, metrics, running, cb_running, resp,
                   status, ended, last, faulted, storeVars, integrations,
                   cache, resolver, probe>>

RaceNext ==
    \/ Tick
    \/ \E c \in 1..MaxCallers :
        \/ \E op \in {"status", "record"} : ReadTracker(c, op)
        \/ WriteTracker(c)

RaceSpec == RaceInit /\ [][RaceNext]_vars

\* C33: under any interleaving of record_sync() and get_status() calls,
\* every timestamp a completed record_sync() appended is in the persisted
\* list until it is 3 hours old: the list holds at least as many active
\* timestamps as record_sync() calls completed within the window.
C33_NoLostUpdate ==
    Len(get_active_timestamps(window, now)) >= Cardinality(CallsWithin(now))

(***************************************************************************)
(* The slot of an admitted sync                                            *)
(***************************************************************************)
\* C34: admitting a sync adds no active timestamp; the number of active
\* timestamps grows only in the step where a sync_with_tracking thread ends
\* with record_sync(); a status computed meanwhile counts at most the
\* persisted active timestamps, whatever the number of running syncs; and
\* the 'started' acknowledgment reports status().syncs_remaining - 1, which
\* is at least 0.
C34_SlotConsumedAtCompletion ==
    [][/\ resp'.kind = "started" =>
            /\ running' = running + 1
            /\ Len(get_active_timestamps(window', now'))
                 <= Len(get_active_timestamps(window, now))
            /\ resp'.syncs_remaining = status'.syncs_remaining - 1
            /\ resp'.syncs_remaining >= 0
       /\ status' # NoStatus =>
            status'.syncs_used <= Len(get_active_timestamps(window, now'))
       /\ Len(get_active_timestamps(window', now'))
            > Len(get_active_timestamps(window, now)) =>
            /\ running' = running - 1
            /\ ended'.origin = "trigger_sync"
            /\ ended'.recorded]_vars

\* a second sync has just been admitted while the first is still running:
\* the status behind the acknowledgment counted no sync
C34_Witness ==
    /\ resp.kind = "started"
    /\ running >= 2
    /\ status.syncs_used = 0
    /\ resp.syncs_remaining = MAX_SYNCS - 1

(***************************************************************************)
(* The index read that fails part-way                                      *)
(***************************************************************************)
\* C35: when a query call of read_campaign_metrics(W) raises after at least
\* one page was fetched, the rows returned are those of the one scan call
\* of the except branch and nothing else: the rows of window W on one page
\* of the scan, each at most once, none taken from the pages of the query.
C35_PartialIndexReadDiscarded ==
    (reader.path = "scan" /\ reader.fetched >= 1) =>
        /\ \E scanned \in scan_pages(table) :
              reader.rows = scan_once(table, reader.range_days, scanned)
        /\ \A k \in DOMAIN table : Occurrences(reader.rows, k) <= 1
        /\ \A i \in 1..Len(reader.rows) :
              /\ key_of(reader.rows[i]) \in matching(table, reader.range_days)
              /\ reader.rows[i] = table[key_of(reader.rows[i])]

\* the query raised on its second call, after a full first page, and the
\* scan returned a row of the window
C35_Witness ==
    /\ reader.path = "scan"
    /\ reader.fetched >= 1
    /\ Cardinality(matching(table, reader.range_days)) > PageItems
    /\ reader.rows # <<>>

(***************************************************************************)
(* A batch call rejected with another error                                *)
(***************************************************************************)
\* C36: a batch call of batch_write_campaign_metrics that fails with an
\* error other than throughput-exceeded is the last call made for its chunk:
\* the chunk is abandoned after that single attempt, the loop is past it, the call is still running or has returned (its only return
\* value is True), and a returned call has issued every chunk.
C36_OtherErrorAbandonsChunk ==
    \A W \in days_list :
        LET w == writer[W] IN
        w.op = "batch" =>
            \A e \in 1..Len(w.issued) :
                w.issued[e].outcome = "error" =>
                    /\ \A d \in 1..Len(w.issued) :
                          d > e => w.issued[d].start > w.issued[e].start
                    /\ w.issued[e].start \in w.abandoned
                    /\ w.i > w.issued[e].start
                    /\ w.active \/ w.returned
                    /\ w.active = ~w.returned
                    /\ w.returned =>
                          /\ w.i > Len(w.items)
                          /\ \A c \in chunk_starts(w.items) : IssuedFor(w, c) # {}

\* a returned call whose first chunk failed once with another error and
\* whose second chunk was then written
C36_Witness ==
    \E W \in days_list :
        LET w == writer[W] IN
        /\ w.op = "batch" /\ w.returned
        /\ Len(w.issued) = 2
        /\ w.issued[1].outcome = "error" /\ w.issued[1].attempt = 1
        /\ w.issued[2].outcome = "ok" /\ w.issued[2].start = 1 + batch_size
        /\ w.abandoned = {1}

(***************************************************************************)
(* One background sync from its start to record_sync(): the two fan-outs,  *)
(* each unit with the batch write of the rows it fetched, and the end of   *)
(* sync_with_tracking                                                      *)
(***************************************************************************)
SyncRunInit == InitCommon /\ db_initialized = TRUE

\* the batch_write_campaign_metrics call of a unit, as far as the run
\* depends on it: the row being written and the attempt counter
UnitWrite(W, attempt) ==
    [NoWrite EXCEPT !.op = "batch", !.active = TRUE, !.range_days = W,
                    !.items = prepare_items(Fetch(1, {}, 1), W, isoformat(now)),
                    !.attempt = attempt]

\* the write of the unit is over
UnitWritten == [NoWrite EXCEPT !.op = "batch", !.returned = TRUE]

\* fetch_and_store(days) of a running unit, with the rows of its one account, in
\* batch_write_campaign_metrics (through write_to_dynamodb): one pass of the
\* body of `for attempt in range(5)` for the one chunk of its rows
FetchAndStoreWrites(u) ==
    LET W == u[2]
        w == IF writer[W] = NoWrite THEN UnitWrite(W, 0) ELSE writer[W]
    IN  /\ fan.state = "fanning"
        /\ fan.units[u] = "running"
        /\ w.active
        /\ \E outcome \in BatchOutcomes :
            /\ table' = IF outcome = "ok"
                        THEN put_items(table, chunk_at(w.items, w.i))
                        ELSE table
            /\ writer' = [writer EXCEPT ![W] =
                            IF leaves_chunk(outcome, w.attempt)
                            THEN UnitWritten
                            ELSE UnitWrite(W, w.attempt + 1)]
        /\ reader' = NoRead
        /\ UNCHANGED <<routeVars, resolveVars, unit, fan>>

\* fetch_and_store(days) ends: it raises before it wrote anything (an
\* upstream call failed), or it returns, with nothing fetched or after
\* batch_write_campaign_metrics returned
FetchAndStoreEnds(u) ==
    /\ fan.state = "fanning"
    /\ fan.units[u] = "running"
    /\ ~writer[u[2]].active
    /\ \E outcome \in IF writer[u[2]] = NoWrite THEN {"returned", "threw"}
                      ELSE {"returned"} :
        fan' = [fan EXCEPT !.units[u] = outcome]
    /\ writer' = [writer EXCEPT ![u[2]] = NoWrite]
    /\ reader' = NoRead
    /\ UNCHANGED <<routeVars, resolveVars, table, unit>>

\* the last statement of sync_with_tracking, after both fan-outs returned:
\* sync_tracker.record_sync() (entry.py:199)
RecordSync ==
    /\ fan.state = "done"
    /\ ended = NoRun
    /\ \E fault \in StorageFaults :
        window' = record_sync(window, now, now, fault[1], fault[2])
    /\ ended' = [origin |-> "trigger_sync", permitted |-> TRUE,
                 threw |-> \E u \in Units : fan.units[u] = "threw",
                 recorded |-> TRUE]
    /\ UNCHANGED <<now, db_initialized, metrics, running, cb_running, resp,
                   status, driverVars, storeVars, resolveVars>>

SyncRunNext ==
    \/ FanStart
    \/ Submit
    \/ \E u \in Units : WorkerStarts(u)
    \/ \E u \in Units : FetchAndStoreWrites(u)
    \/ \E u \in Units : FetchAndStoreEnds(u)
    \/ NextFanOut
    \/ RecordSync

SyncRunSpec == SyncRunInit /\ [][SyncRunNext]_vars

\* every call to the network and to the store returns, and a started thread
\* keeps being scheduled
SyncRunFairSpec == SyncRunSpec /\ WF_vars(SyncRunNext)

\* C37: a background sync whose external calls all return finishes: a
\* batch_write_campaign_metrics call still at a chunk has made fewer than 5
\* attempts for it (the 5th is its last), the
\* run that has opened its first fan-out reaches the end of
\* sync_with_tracking, and at that end all six units have returned or
\* raised and no write is still going on.
C37_SyncRunTerminates ==
    /\ [](\A W \in days_list : writer[W].active => writer[W].attempt < 5)
    /\ (fan.state = "fanning") ~> (ended.origin = "trigger_sync")
    /\ [](ended.origin = "trigger_sync" =>
            /\ FanDone
            /\ ended.recorded
            /\ \A W \in days_list : writer[W] = NoWrite)

\* the run is over and recorded although a unit raised and another unit's
\* chunk was given up, while a third unit's rows were written
C37_Witness ==
    /\ ended.origin = "trigger_sync"
    /\ ended.recorded
    /\ FanDone
    /\ \E u \in Units : fan.units[u] = "threw"
    /\ table # EmptyTable
    /\ \E W \in days_list : matching(table, W) = {}

====
